---- MODULE Spec2Model ----
(***************************************************************************)
(* A model of increa-reader's PDF page processor                           *)
(* (packages/server/increa_reader/pdf_processor.py), of the temp-image     *)
(* route of the server (pdf_routes.py), of the PDF MCP server              *)
(* (packages/pdf-reader-mcp/pdf_reader_server.py), of the translator MCP   *)
(* server (packages/text-translator-mcp/translator_server.py), and of the  *)
(* server's chat routes (chat.py), frontend tools (frontend_tools.py),     *)
(* session routes (session_routes.py) and file deletion (file_routes.py).  *)
(*                                                                         *)
(* Text is a sequence of one-character strings.  A character outside       *)
(* ASCII is written by its code point ("U+2211" is the summation sign).    *)
(***************************************************************************)
EXTENDS Integers, Sequences, FiniteSets, TLC

VARIABLES
    doc,             \* the open document: a sequence of pages (self.doc)
    calls,           \* one record per finished extract_page_markdown call
    temp_dir,        \* tempfile.gettempdir(): file name -> what was last saved
    table_data,      \* the grid handed to _convert_table_to_markdown
    markdown_table,  \* <<>> before the conversion, <<result>> after it
    block,           \* the text block handed to the classifier
    text_item,       \* <<>> before, <<[item, formatted]>> after
    files,           \* the file system of the file routes: path -> node
    response,        \* <<>>, or <<the last answer of a file route>>
    documents,       \* the document store of the PDF MCP server: doc_id -> doc
    issued,          \* the doc_ids open_pdf has returned so far
    closed,          \* the doc_ids close_pdf has closed so far
    tool_call,       \* <<>>, or <<the last tool call of the PDF MCP server>>
    translated,      \* <<>>, or <<the last translate_paragraphs call>>
    analyzed,        \* <<>>, or <<the last analyze_document call>>
    active_sessions, \* chat.py: session id -> the client registered for it
    streams,         \* the chat_query streams: where each is and what it holds
    aborted,         \* <<>>, or <<the last chat_abort call>>
    pending_tool_calls,   \* frontend_tools.py: call_id -> the invocation that waits
    frontend_tool_queue,  \* the tool_call messages not yet sent to a frontend
    wrappers,        \* the frontend_tool_wrapper invocations, by call_id
    delivered,       \* the call_ids whose message a frontend has received
    posted,          \* <<>>, or <<the last call of the tool-result endpoint>>
    session_files,   \* session_routes.py: session id -> the data of its file
    meta,            \* <<>> (no sessions.json), or <<its content>>
    session_answer   \* <<>>, or <<the last save_session/delete_session call>>

processor_vars ==
    <<doc, calls, temp_dir, table_data, markdown_table, block, text_item>>

service_vars ==
    <<files, response, documents, issued, closed, tool_call, translated>>

chat_vars == <<active_sessions, streams, aborted>>

frontend_vars ==
    <<pending_tool_calls, frontend_tool_queue, wrappers, delivered, posted>>

session_vars == <<session_files, meta, session_answer>>

app_vars == <<analyzed, chat_vars, frontend_vars, session_vars>>

vars == <<processor_vars, service_vars, app_vars>>

\* no request has reached the routes and MCP servers
ServiceIdle ==
    /\ files = <<>> /\ response = <<>>
    /\ documents = <<>> /\ issued = {} /\ closed = {} /\ tool_call = <<>>
    /\ translated = <<>>

\* no chat stream runs and abort was never called
ChatIdle == active_sessions = <<>> /\ streams = <<>> /\ aborted = <<>>

\* no frontend tool was called
FrontendIdle ==
    /\ pending_tool_calls = <<>> /\ frontend_tool_queue = <<>>
    /\ wrappers = <<>> /\ delivered = {} /\ posted = <<>>

\* no session was saved
SessionsIdle == session_files = <<>> /\ meta = <<>> /\ session_answer = <<>>

\* nothing has reached the chat, frontend-tool and session routes
AppIdle == analyzed = <<>> /\ ChatIdle /\ FrontendIdle /\ SessionsIdle

----------------------------------------------------------------------------
(* Bounds of the model.                                                    *)

MaxRows == 2
MaxCols == 2
MaxItems == 3
MaxPages == 2
MaxCalls == 2
MaxWords == 400
MaxIds == 2
MaxPage == 3
MaxStart == 2
MaxCount == 2
MaxStreams == 2
MaxToolCalls == 2

----------------------------------------------------------------------------
(* Strings.                                                                *)

NL == "\n"

Whitespace == {" ", NL, "\t"}

Max(a, b) == IF a >= b THEN a ELSE b

Min(a, b) == IF a <= b THEN a ELSE b

\* "x" * n
Repeat(c, n) == [i \in 1..n |-> c]

RECURSIVE Concat(_)
\* "".join(parts)
Concat(parts) ==
    IF parts = <<>> THEN <<>> ELSE Head(parts) \o Concat(Tail(parts))

RECURSIVE Join(_, _)
\* sep.join(parts)
Join(parts, sep) ==
    IF parts = <<>> THEN <<>>
    ELSE IF Len(parts) = 1 THEN parts[1]
    ELSE parts[1] \o sep \o Join(Tail(parts), sep)

RECURSIVE LStrip(_)
LStrip(s) ==
    IF s # <<>> /\ Head(s) \in Whitespace THEN LStrip(Tail(s)) ELSE s

RECURSIVE RStrip(_)
RStrip(s) ==
    IF s # <<>> /\ s[Len(s)] \in Whitespace
    THEN RStrip(SubSeq(s, 1, Len(s) - 1)) ELSE s

\* str.strip()
Strip(s) == RStrip(LStrip(s))

\* the number of occurrences of character c in s
Count(s, c) == Cardinality({i \in 1..Len(s) : s[i] = c})

RECURSIVE SplitOn(_, _)
\* s.split(c): the pieces of s between occurrences of c
SplitOn(s, c) ==
    IF \A i \in 1..Len(s) : s[i] # c THEN <<s>>
    ELSE LET k == CHOOSE i \in 1..Len(s) :
                      s[i] = c /\ \A j \in 1..(i - 1) : s[j] # c
         IN  <<SubSeq(s, 1, k - 1)>> \o SplitOn(SubSeq(s, k + 1, Len(s)), c)

----------------------------------------------------------------------------
(* Table formatter.                                                        *)

RECURSIVE MaxLen(_)
\* max(len(row) for row in table_data), for a non-empty table_data
MaxLen(rows) ==
    IF Len(rows) = 1 THEN Len(rows[1])
    ELSE Max(Len(rows[1]), MaxLen(Tail(rows)))

\* row + [""] * (max_cols - len(row)), every cell stripped
ProcessedRow(row, max_cols) ==
    [j \in 1..max_cols |-> Strip(IF j <= Len(row) THEN row[j] ELSE <<>>)]

\* "| " + " | ".join(row) + " |"
PipeRow(row) == <<"|", " ">> \o Join(row, <<" ", "|", " ">>) \o <<" ", "|">>

\* "|" + "|".join([" --- " for _ in row]) + "|"
SeparatorRow(row) ==
    <<"|">> \o Join([j \in 1..Len(row) |-> <<" ", "-", "-", "-", " ">>], <<"|">>)
            \o <<"|">>

ConvertTableToMarkdown(data) ==
    IF data = <<>> THEN <<>>
    ELSE LET max_cols == MaxLen(data)
             processed_data == [i \in 1..Len(data) |->
                                   ProcessedRow(data[i], max_cols)]
             markdown_lines ==
                 <<PipeRow(processed_data[1]), SeparatorRow(processed_data[1])>>
                 \o [i \in 1..(Len(data) - 1) |-> PipeRow(processed_data[i + 1])]
         IN  Join(markdown_lines, <<NL>>)

\* The cell texts the table engine may report.
Cells == { <<>>, <<" ", "b", " ">>, <<"c", "|", "d">> }

RowsOf(n) == UNION { [1..k -> Cells] : k \in 1..n }

Grids == UNION { [1..r -> RowsOf(MaxCols)] : r \in 0..MaxRows }

----------------------------------------------------------------------------
(* Content classifier.                                                     *)
(*                                                                         *)
(* A block is [type, bbox, lines]; lines is a sequence of lines, a line a  *)
(* sequence of spans, a span [text, size] or, with no size, [text].        *)
(* bbox is <<x0, y0, x1, y1>>.                                             *)

\* the text of a block: every line's spans concatenated, "\n" after each line
BlockText(b) ==
    Strip(Concat([i \in 1..Len(b.lines) |->
        Concat([j \in 1..Len(b.lines[i]) |-> b.lines[i][j].text]) \o <<NL>>]))

\* {} (the empty record) or {"size": ...}; flags and font are never read
GetFontInfo(b) ==
    IF b.lines = <<>> THEN <<>>
    ELSE IF b.lines[1] = <<>> THEN <<>>
    ELSE LET first_span == b.lines[1][1]
         IN  [size |-> IF "size" \in DOMAIN first_span
                       THEN first_span.size ELSE 12]

\* font_info.get("size", 12)
FontSize(font_info) ==
    IF "size" \in DOMAIN font_info THEN font_info.size ELSE 12

\* sub occurs in s at index i
At(s, i, sub) ==
    /\ i + Len(sub) - 1 <= Len(s)
    /\ s[i] = sub[1]
    /\ SubSeq(s, i, i + Len(sub) - 1) = sub

\* re.search of one of the literals subs: it occurs somewhere in s
HasAnySub(s, subs) ==
    \E i \in 1..Len(s) : \E sub \in {x \in subs : x[1] = s[i]} : At(s, i, sub)

\* "." matches every character of s[a..b]: none is a line break
NoBreak(s, a, b) == \A k \in a..b : s[k] # NL

\* re.search(open + ".*" + mid + ".*" + close, s) for literal open, mid, close
HasBraced(s, open, mid, close) ==
    \E i \in {i0 \in 1..Len(s) : At(s, i0, open)} :
        \E j \in {j0 \in (i + Len(open))..Len(s) : At(s, j0, mid)} :
            /\ NoBreak(s, i + Len(open), j - 1)
            /\ \E k \in {k0 \in (j + Len(mid))..Len(s) : At(s, k0, close)} :
                   NoBreak(s, j + Len(mid), k - 1)

\* re.search(r'\$.*\$', s)
HasDollarPair(s) ==
    \E i \in {i0 \in 1..Len(s) : s[i0] = "$"} :
        \E j \in {j0 \in (i + 1)..Len(s) : s[j0] = "$"} :
            NoBreak(s, i + 1, j - 1)

\* the literal entries of math_indicators
MathLiterals == {
    <<"\\", "f", "r", "a", "c", "{">>, <<"\\", "s", "q", "r", "t", "{">>,
    <<"\\", "s", "u", "m", "{">>, <<"\\", "i", "n", "t", "{">>,
    <<"\\", "a", "l", "p", "h", "a">>, <<"\\", "b", "e", "t", "a">>,
    <<"\\", "g", "a", "m", "m", "a">>, <<"\\", "d", "e", "l", "t", "a">>,
    <<"\\", "t", "h", "e", "t", "a">>, <<"\\", "l", "a", "m", "b", "d", "a">>,
    <<"\\", "m", "u">>, <<"\\", "p", "i">>,
    <<"\\", "s", "i", "g", "m", "a">>, <<"\\", "p", "h", "i">>,
    <<"\\", "o", "m", "e", "g", "a">>,
    <<"\\", "l", "e", "q">>, <<"\\", "g", "e", "q">>, <<"\\", "n", "e", "q">>,
    <<"\\", "a", "p", "p", "r", "o", "x">>, <<"\\", "i", "n", "f", "t", "y">> }

\* math_chars
MathChars == {
    "U+2211", "U+220F", "U+222B", "U+221A", "U+00B1", "U+2264", "U+2265",
    "U+2260", "U+221E", "U+2202", "U+2207", "U+2206", "U+03B1", "U+03B2",
    "U+03B3", "U+03B4", "U+03B5", "U+03B6", "U+03B7", "U+03B8", "U+03B9",
    "U+03BA", "U+03BB", "U+03BC", "U+03BD", "U+03BE", "U+03BF", "U+03C0",
    "U+03C1", "U+03C3", "U+03C4", "U+03C5", "U+03C6", "U+03C7", "U+03C8",
    "U+03C9" }

\* ratio > 0.2, with ratio = (math characters) / len(text), 0 for empty text
RatioAboveFifth(text) ==
    /\ text # <<>>
    /\ 5 * Cardinality({i \in 1..Len(text) : text[i] \in MathChars}) > Len(text)

IsMathFormula(text) ==
    \/ HasAnySub(text, MathLiterals)
    \/ HasBraced(text, <<"{">>, <<"}", "_", "{">>, <<"}">>)
    \/ HasBraced(text, <<"{">>, <<"}", "^", "{">>, <<"}">>)
    \/ HasDollarPair(text)
    \/ (RatioAboveFifth(text) /\ Len(Strip(text)) < 200)

Digits == {"0", "1", "2", "3", "4", "5", "6", "7", "8", "9"}

\* "U+2022" is the bullet
Bullets == {"-", "U+2022", "*"}

\* the index of the first character of s at or after i that is not in set
RECURSIVE SkipWhile(_, _, _)
SkipWhile(s, i, set) ==
    IF i <= Len(s) /\ s[i] \in set THEN SkipWhile(s, i + 1, set) ELSE i

\* re.match(r'^\s*[-•*]\s+', text)
MatchesBullet(text) ==
    LET i == SkipWhile(text, 1, Whitespace)
    IN  /\ i + 1 <= Len(text)
        /\ text[i] \in Bullets
        /\ text[i + 1] \in Whitespace

\* re.match(r'^\s*\d+\.\s+', text)
MatchesNumbered(text) ==
    LET i == SkipWhile(text, 1, Whitespace)
        j == SkipWhile(text, i, Digits)
    IN  /\ j > i
        /\ j + 1 <= Len(text)
        /\ text[j] = "."
        /\ text[j + 1] \in Whitespace

EndsWith(s, c) == s # <<>> /\ s[Len(s)] = c

\* the list test put before the heading test
ClassifyText_ListFirst(text, b) ==
    IF IsMathFormula(text) THEN "formula"
    ELSE IF MatchesBullet(text) \/ MatchesNumbered(text) THEN "list"
    ELSE LET font_info == GetFontInfo(b)
         IN  IF /\ font_info # <<>>
                /\ FontSize(font_info) > 14
                /\ (EndsWith(Strip(text), ":") \/ Len(Strip(text)) < 100)
             THEN "heading"
             ELSE "paragraph"

\* the heading test passing from size 12 on
ClassifyText_LowThreshold(text, b) ==
    IF IsMathFormula(text) THEN "formula"
    ELSE LET font_info == GetFontInfo(b)
         IN  IF /\ font_info # <<>>
                /\ FontSize(font_info) > 12
                /\ (EndsWith(Strip(text), ":") \/ Len(Strip(text)) < 100)
             THEN "heading"
             ELSE IF MatchesBullet(text) \/ MatchesNumbered(text) THEN "list"
             ELSE "paragraph"

ClassifyText(text, b) ==
    IF IsMathFormula(text) THEN "formula"
    ELSE LET font_info == GetFontInfo(b)
         IN  IF /\ font_info # <<>>
                /\ FontSize(font_info) > 14
                /\ (EndsWith(Strip(text), ":") \/ Len(Strip(text)) < 100)
             THEN "heading"
             ELSE IF MatchesBullet(text) \/ MatchesNumbered(text) THEN "list"
             ELSE "paragraph"

\* the backtick character
Backtick == "U+0060"

\* the limits taken as inclusive
HeadingLevel_Inclusive(font_size) ==
    IF font_size >= 18 THEN 1
    ELSE IF font_size >= 16 THEN 2
    ELSE IF font_size >= 14 THEN 3
    ELSE 4

HeadingLevel(font_size) ==
    IF font_size > 18 THEN 1
    ELSE IF font_size > 16 THEN 2
    ELSE IF font_size > 14 THEN 3
    ELSE 4

FormatTextContent(item) ==
    IF item.type = "heading"
    THEN <<NL>> \o Repeat("#", HeadingLevel(FontSize(item.font_info)))
              \o <<" ">> \o Strip(item.text) \o <<NL>>
    ELSE IF item.type = "formula"
    THEN IF \E i \in 1..Len(item.text) : item.text[i] = "$"
         THEN <<NL, "$", "$", NL>> \o item.text \o <<NL, "$", "$", NL>>
         ELSE <<NL, Backtick>> \o item.text \o <<Backtick, NL>>
    ELSE <<NL>> \o item.text \o <<NL>>

----------------------------------------------------------------------------
(* Geometry, as the PDF engine's Rect computes it.                         *)

\* Rect.is_empty
RectIsEmpty(r) == r[1] >= r[3] \/ r[2] >= r[4]

\* rectangles that only share an edge taken as intersecting
RectIntersects_Closed(r1, r2) ==
    /\ r1[1] <= r2[3] /\ r2[1] <= r1[3]
    /\ r1[2] <= r2[4] /\ r2[2] <= r1[4]

\* Rect.intersects: the two rectangles share a rectangle of positive area
RectIntersects(r1, r2) ==
    /\ ~RectIsEmpty(r1)
    /\ ~RectIsEmpty(r2)
    /\ ~RectIsEmpty(<<Max(r1[1], r2[1]), Max(r1[2], r2[2]),
                      Min(r1[3], r2[3]), Min(r1[4], r2[4])>>)

RECURSIVE InsertByY0_Unstable(_, _)
\* x placed before the elements of the same y0
InsertByY0_Unstable(sorted, x) ==
    IF sorted = <<>> THEN <<x>>
    ELSE IF sorted[Len(sorted)].bbox[2] < x.bbox[2] THEN Append(sorted, x)
    ELSE Append(InsertByY0_Unstable(SubSeq(sorted, 1, Len(sorted) - 1), x),
                sorted[Len(sorted)])

RECURSIVE InsertByY0(_, _)
\* x placed after every element of the sorted sequence whose y0 is not larger
InsertByY0(sorted, x) ==
    IF sorted = <<>> THEN <<x>>
    ELSE IF sorted[Len(sorted)].bbox[2] <= x.bbox[2] THEN Append(sorted, x)
    ELSE Append(InsertByY0(SubSeq(sorted, 1, Len(sorted) - 1), x),
                sorted[Len(sorted)])

RECURSIVE SortedByY0(_)
\* sorted(items, key=lambda b: b["bbox"][1]): ascending y0, stable
SortedByY0(items) ==
    IF items = <<>> THEN <<>>
    ELSE InsertByY0(SortedByY0(SubSeq(items, 1, Len(items) - 1)),
                    items[Len(items)])

RECURSIVE ProcessTextBlocksFrom(_, _)
ProcessTextBlocksFrom(blocks, table_regions) ==
    IF blocks = <<>> THEN <<>>
    ELSE LET b == Head(blocks)
             rest == ProcessTextBlocksFrom(Tail(blocks), table_regions)
             in_table == \E t \in 1..Len(table_regions) :
                             RectIntersects(b.bbox, table_regions[t])
             block_text == BlockText(b)
         IN  IF b.type # 0 THEN rest
             ELSE IF in_table THEN rest
             ELSE IF block_text = <<>> THEN rest
             ELSE <<[type |-> ClassifyText(block_text, b),
                     text |-> block_text,
                     bbox |-> b.bbox,
                     font_info |-> GetFontInfo(b)]>> \o rest

ProcessTextBlocks(blocks, table_regions) ==
    ProcessTextBlocksFrom(SortedByY0(blocks), table_regions)

----------------------------------------------------------------------------
(* Page extraction.                                                        *)
(*                                                                         *)
(* A page is [blocks, tables, find_tables_raises, images]: what the PDF    *)
(* engine reports for it.  A table is [bbox, data, extract_raises]; an     *)
(* image is [xref, n, alpha, bbox, fails], fails naming the engine call    *)
(* that raises for it: "none", "pixmap" (fitz.Pixmap), "save" (pix.save)   *)
(* or "bbox" (page.get_image_bbox).                                        *)

DigitOf(d) == CASE d = 0 -> "0" [] d = 1 -> "1" [] d = 2 -> "2" [] d = 3 -> "3"
                [] d = 4 -> "4" [] d = 5 -> "5" [] d = 6 -> "6" [] d = 7 -> "7"
                [] d = 8 -> "8" [] d = 9 -> "9"

RECURSIVE NatToStr(_)
NatToStr(n) ==
    IF n < 10 THEN <<DigitOf(n)>>
    ELSE Append(NatToStr(n \div 10), DigitOf(n % 10))

\* f"{n}" for an integer n
IntToStr(n) == IF n < 0 THEN <<"-">> \o NatToStr(0 - n) ELSE NatToStr(n)

RECURSIVE TablesFrom(_, _)
\* the loop over table_finder.tables from index idx on; an exception of
\* table.extract() ends it, keeping the tables appended so far
TablesFrom(found, idx) ==
    IF idx > Len(found) THEN <<>>
    ELSE LET table == found[idx]
         IN  IF table.extract_raises THEN <<>>
             ELSE <<[id |-> <<"t", "a", "b", "l", "e", "_">> \o IntToStr(idx),
                     bbox |-> table.bbox,
                     markdown |-> ConvertTableToMarkdown(table.data),
                     rows |-> Len(table.data),
                     cols |-> IF table.data # <<>>
                              THEN Len(table.data[1]) ELSE 0]>>
                  \o TablesFrom(found, idx + 1)

\* the tables of the page listed although find_tables raised
ExtractTables_FailureIgnored(page) == TablesFrom(page.tables, 1)

ExtractTables(page) ==
    IF page.find_tables_raises THEN <<>> ELSE TablesFrom(page.tables, 1)

\* a file name that carries the number of the call that saves it
ImgFilename_PerCall(page_num, idx) ==
    <<"p", "d", "f", "_", "p">> \o IntToStr(page_num)
        \o <<"_", "i", "m", "g">> \o IntToStr(idx)
        \o <<"_">> \o IntToStr(Len(calls)) \o <<".", "p", "n", "g">>

\* f"pdf_p{page_num}_img{img_idx + 1}.png", img_idx + 1 being idx
ImgFilename(page_num, idx) ==
    <<"p", "d", "f", "_", "p">> \o IntToStr(page_num)
        \o <<"_", "i", "m", "g">> \o IntToStr(idx) \o <<".", "p", "n", "g">>

ApiTempImage ==
    <<"/", "a", "p", "i", "/", "t", "e", "m", "p", "-", "i", "m", "a", "g", "e", "/">>

\* f"![图片{img_idx + 1}](/api/temp-image/{img_filename})"
ImgMarkdown(idx, img_filename) ==
    <<"!", "[", "U+56FE", "U+7247">> \o IntToStr(idx) \o <<"]", "(">>
        \o ApiTempImage \o img_filename \o <<")">>

TempDirPath == <<"/", "t", "m", "p", "/">>

RECURSIVE ImagesFrom(_, _, _)
\* the loop over image_list from index idx on: [images, saved], saved the
\* files written.  The loop sits inside one try: an exception ends it,
\* keeping the images appended so far.
ImagesFrom(image_list, idx, page_num) ==
    IF idx > Len(image_list) THEN [images |-> <<>>, saved |-> <<>>]
    ELSE LET img == image_list[idx]
             rest == ImagesFrom(image_list, idx + 1, page_num)
             img_filename == ImgFilename(page_num, idx)
             file == [name |-> img_filename, xref |-> img.xref]
         IN  IF img.fails = "pixmap" THEN [images |-> <<>>, saved |-> <<>>]
             ELSE IF img.n - img.alpha < 4
             THEN IF img.fails = "save" THEN [images |-> <<>>, saved |-> <<>>]
                  ELSE IF img.fails = "bbox"
                  THEN [images |-> <<>>, saved |-> <<file>>]
                  ELSE [images |->
                           <<[id |-> <<"i", "m", "a", "g", "e", "_">>
                                         \o IntToStr(idx),
                              path |-> TempDirPath \o img_filename,
                              bbox |-> img.bbox,
                              markdown |-> ImgMarkdown(idx, img_filename)]>>
                           \o rest.images,
                        saved |-> <<file>> \o rest.saved]
             ELSE rest

ExtractImages(page, page_num) == ImagesFrom(page.images, 1, page_num)

\* "\n\n---\n\n*第 N 页*\n"
PageFooter(page_num) ==
    <<NL, NL, "-", "-", "-", NL, NL, "*", "U+7B2C", " ">> \o IntToStr(page_num)
        \o <<" ", "U+9875", "*", NL>>

\* all_content before the sort: text, then tables, then images
AllContent(text_content, tables, images) ==
    [i \in 1..Len(text_content) |->
        [type |-> "text", content |-> text_content[i],
         bbox |-> text_content[i].bbox, order |-> i - 1]]
    \o [i \in 1..Len(tables) |->
        [type |-> "table", content |-> tables[i],
         bbox |-> tables[i].bbox, order |-> i - 1]]
    \o [i \in 1..Len(images) |->
        [type |-> "image", content |-> images[i],
         bbox |-> images[i].bbox, order |-> i - 1]]

\* the Markdown fragment of one item of all_content
Fragment(item) ==
    IF item.type = "text" THEN FormatTextContent(item.content)
    ELSE <<NL>> \o item.content.markdown \o <<NL>>

\* the footer appended whatever the joined fragments are
AssembleMarkdown_AlwaysFooter(text_content, tables, images, page_num) ==
    LET all_content == SortedByY0(AllContent(text_content, tables, images))
        markdown_parts == [i \in 1..Len(all_content) |-> Fragment(all_content[i])]
    IN  Join(markdown_parts, <<NL>>) \o PageFooter(page_num)

AssembleMarkdown(text_content, tables, images, page_num) ==
    LET all_content == SortedByY0(AllContent(text_content, tables, images))
        markdown_parts == [i \in 1..Len(all_content) |-> Fragment(all_content[i])]
        result == Join(markdown_parts, <<NL>>)
    IN  IF Strip(result) # <<>> THEN result \o PageFooter(page_num) ELSE result

\* len(s.split(" ")): the pieces between single spaces, empty ones included
WordCount_SpaceSplit(s) ==
    Cardinality({i \in 1..Len(s) : s[i] = " "}) + 1

\* len(s.split()): the number of maximal runs of characters that are not
\* whitespace
WordCount(s) ==
    Cardinality({i \in 1..Len(s) :
        s[i] \notin Whitespace /\ (i = 1 \/ s[i - 1] \in Whitespace)})

\* f"Page {page_num} out of range (1-{page_count})"
OutOfRange(page_num, page_count) ==
    <<"P", "a", "g", "e", " ">> \o IntToStr(page_num)
        \o <<" ", "o", "u", "t", " ", "o", "f", " ", "r", "a", "n", "g", "e",
             " ", "(", "1", "-">> \o IntToStr(page_count) \o <<")">>

\* the upper limit taken as exclusive: the last page is refused
PageOutOfRange_LastPage(d, page_num) == page_num < 1 \/ page_num >= Len(d)

\* page_num < 1 or page_num > self.doc.page_count
PageOutOfRange(d, page_num) == page_num < 1 \/ page_num > Len(d)

\* what _extract_page_content does with a page, in order
PageSteps == <<"get_text", "_extract_tables", "_extract_images",
               "_process_text_blocks", "_assemble_markdown">>

\* lines 36-68 of _extract_page_content: the work done on a page in range
PageContent(d, page_num) ==
    LET page == d[page_num]
        tables == ExtractTables(page)
        table_regions == [i \in 1..Len(tables) |-> tables[i].bbox]
        extracted == ExtractImages(page, page_num)
        images == extracted.images
        text_content == ProcessTextBlocks(page.blocks, table_regions)
        markdown_content ==
            AssembleMarkdown(text_content, tables, images, page_num)
    IN  [page_num |-> page_num, raised |-> <<>>,
         steps |-> PageSteps,
         result |-> [page |-> page_num,
                     markdown |-> markdown_content,
                     has_tables |-> Len(tables) > 0,
                     has_images |-> Len(images) > 0,
                     estimated_reading_time |->
                         WordCount(markdown_content) \div 200],
         text_content |-> text_content, tables |-> tables,
         images |-> images,
         all_content |->
             SortedByY0(AllContent(text_content, tables, images)),
         saved |-> extracted.saved]

\* the range check made after the extraction: the images of the first page
\* are extracted and saved before the error is raised
ExtractPageContent_LateCheck(d, page_num) ==
    IF PageOutOfRange(d, page_num)
    THEN [page_num |-> page_num, raised |-> <<"ValueError">>,
          message |-> OutOfRange(page_num, Len(d)),
          steps |-> PageSteps,
          text_content |-> <<>>, tables |-> <<>>, images |-> <<>>,
          all_content |-> <<>>,
          saved |-> ExtractImages(d[1], page_num).saved]
    ELSE PageContent(d, page_num)

\* _extract_page_content: what the call returns or raises, with the steps it
\* took, the lists it built on the way and the files it saved
ExtractPageContent(d, page_num) ==
    IF PageOutOfRange(d, page_num)
    THEN [page_num |-> page_num, raised |-> <<"ValueError">>,
          message |-> OutOfRange(page_num, Len(d)),
          steps |-> <<>>,
          text_content |-> <<>>, tables |-> <<>>, images |-> <<>>,
          all_content |-> <<>>, saved |-> <<>>]
    ELSE PageContent(d, page_num)

\* the temp directory after call number n saved the files of saved, in order
RECURSIVE SaveAll(_, _, _)
SaveAll(dir, saved, n) ==
    IF saved = <<>> THEN dir
    ELSE LET f == Head(saved)
         IN  SaveAll([name \in DOMAIN dir \cup {f.name} |->
                         IF name = f.name THEN [call |-> n, xref |-> f.xref]
                         ELSE dir[name]],
                     Tail(saved), n)

\* extract_page_markdown(doc_path, page_num)
ExtractPageMarkdown(page_num) ==
    LET call == ExtractPageContent(doc, page_num)
    IN  /\ calls' = Append(calls, call)
        /\ temp_dir' = SaveAll(temp_dir, call.saved, Len(calls) + 1)
        /\ UNCHANGED <<doc, table_data, markdown_table, block, text_item>>
        /\ UNCHANGED service_vars
        /\ UNCHANGED app_vars

----------------------------------------------------------------------------
(* The table formatter on its own.                                         *)

NoBlock == [type |-> 0, bbox |-> <<0, 0, 0, 0>>, lines |-> <<>>]

InitTable ==
    /\ table_data \in Grids
    /\ markdown_table = <<>>
    /\ doc = <<>> /\ calls = <<>> /\ temp_dir = <<>>
    /\ block = NoBlock /\ text_item = <<>>
    /\ ServiceIdle
    /\ AppIdle

ConvertTable ==
    /\ markdown_table = <<>>
    /\ markdown_table' = <<ConvertTableToMarkdown(table_data)>>
    /\ UNCHANGED <<doc, calls, temp_dir, table_data, block, text_item>>
    /\ UNCHANGED service_vars
    /\ UNCHANGED app_vars

NextTable == ConvertTable

SpecTable == InitTable /\ [][NextTable]_vars

----------------------------------------------------------------------------
(* The classifier and the text formatter on one block.                     *)

Summary == <<"S", "u", "m", "m", "a", "r", "y">>

Prefixes == { <<>>, <<"-", " ">>, <<"-">>, <<"1", "2", ".", " ">>,
              <<"U+2022", "\t">> }

Cores == { Summary,
           <<"\\", "p", "i">>,
           <<"$", "a", "$">>,
           <<"$", "a", NL, "$">>,
           <<"U+2211">>,
           <<"{", "a", "}", "_", "{", "b", "}">> }

\* how many filler letters follow the core: the lengths put the text on both
\* sides of the limits 100 and 200 and of the ratio 0.2
FillLengths == {0, 3, 4, 92, 93, 192, 193}

Suffixes == { <<>>, <<":">> }

Texts == { p \o c \o Repeat("x", n) \o s :
             p \in Prefixes, c \in Cores, n \in FillLengths, s \in Suffixes }

\* the first span of a block, with a size or without one
FirstSpans == { [text |-> t, size |-> z] : t \in Texts,
                                           z \in {12, 14, 15, 16, 17, 18, 20} }
              \cup { [text |-> t] : t \in Texts }

\* one span; no span in the first line; a second line in another size
BlocksOf(span) ==
    { [type |-> 0, bbox |-> <<0, 100, 100, 120>>, lines |-> ls] :
        ls \in { <<<<span>>>>,
                 << <<>>, <<span>> >>,
                 << <<span>>, <<[text |-> <<"y">>, size |-> 20]>> >> } }

ClassifierBlocks == UNION { BlocksOf(span) : span \in FirstSpans }

InitClassify ==
    /\ block \in ClassifierBlocks
    /\ text_item = <<>>
    /\ ServiceIdle
    /\ AppIdle
    /\ doc = <<>> /\ calls = <<>> /\ temp_dir = <<>>
    /\ table_data = <<>> /\ markdown_table = <<>>

\* _process_text_blocks on the block, then _format_text_content on what it kept
ClassifyBlock ==
    /\ text_item = <<>>
    /\ LET content == ProcessTextBlocks(<<block>>, <<>>)
       IN  text_item' = <<[direct |-> FALSE,
                           content |-> content,
                           formatted |-> [i \in 1..Len(content) |->
                                             FormatTextContent(content[i])]]>>
    /\ UNCHANGED <<doc, calls, temp_dir, table_data, markdown_table, block>>
    /\ UNCHANGED service_vars
    /\ UNCHANGED app_vars

\* _format_text_content called on a heading item built from the block
FormatHeading ==
    /\ text_item = <<>>
    /\ LET item == [type |-> "heading", text |-> BlockText(block),
                    bbox |-> block.bbox, font_info |-> GetFontInfo(block)]
       IN  text_item' = <<[direct |-> TRUE,
                           content |-> <<item>>,
                           formatted |-> <<FormatTextContent(item)>>]>>
    /\ UNCHANGED <<doc, calls, temp_dir, table_data, markdown_table, block>>
    /\ UNCHANGED service_vars
    /\ UNCHANGED app_vars

NextClassify == ClassifyBlock \/ FormatHeading

SpecClassify == InitClassify /\ [][NextClassify]_vars

----------------------------------------------------------------------------
(* One page with every kind of content, extracted once.                    *)

Span(t, z) == [text |-> t, size |-> z]

TextBlock(bbox, t, z) == [type |-> 0, bbox |-> bbox, lines |-> <<<<Span(t, z)>>>>]

\* a heading at y=100, a paragraph at y=75, a block that overlaps the table at
\* y=50, a block that only touches that table's lower edge, a blank block
\* and an image block
PageBlocks == {
    TextBlock(<<0, 100, 100, 120>>, Summary, 20),
    TextBlock(<<0, 75, 100, 95>>, <<"a", " ", "b">>, 12),
    TextBlock(<<10, 60, 90, 80>>, <<"c">>, 12),
    TextBlock(<<0, 70, 100, 75>>, <<"-", " ", "d">>, 12),
    TextBlock(<<0, 75, 100, 95>>, <<" ">>, 12),
    [type |-> 1, bbox |-> <<0, 50, 100, 70>>, lines |-> <<>>] }

\* a ragged table at y=50, a table at y=100 beside the heading whose first
\* row is the shorter one, and a table whose extract() raises
PageTables == {
    [bbox |-> <<0, 50, 100, 70>>, extract_raises |-> FALSE,
     data |-> << <<<<"h">>, <<"k">>>>, <<<<"v">>>> >>],
    [bbox |-> <<200, 100, 300, 130>>, extract_raises |-> FALSE,
     data |-> << <<<<"x">>>>, <<<<"y">>, <<"z">>>> >>],
    [bbox |-> <<0, 75, 100, 95>>, extract_raises |-> TRUE,
     data |-> << <<<<"z">>>> >>] }

\* RGB, RGB with alpha, CMYK, and RGB images for which one engine call raises
PageImages == {
    [xref |-> 1, n |-> 3, alpha |-> 0, bbox |-> <<0, 100, 50, 150>>, fails |-> "none"],
    [xref |-> 2, n |-> 4, alpha |-> 1, bbox |-> <<0, 50, 50, 60>>, fails |-> "none"],
    [xref |-> 3, n |-> 4, alpha |-> 0, bbox |-> <<0, 75, 50, 90>>, fails |-> "none"],
    [xref |-> 4, n |-> 3, alpha |-> 0, bbox |-> <<0, 75, 50, 90>>, fails |-> "pixmap"],
    [xref |-> 5, n |-> 3, alpha |-> 0, bbox |-> <<0, 75, 50, 90>>, fails |-> "save"],
    [xref |-> 6, n |-> 3, alpha |-> 0, bbox |-> <<0, 75, 50, 90>>, fails |-> "bbox"] }

\* the pages with at most MaxItems blocks, tables and images in all
RichPages ==
    UNION { UNION { UNION {
        { [blocks |-> b, tables |-> t, find_tables_raises |-> f, images |-> i] :
            b \in [1..nb -> PageBlocks], t \in [1..nt -> PageTables],
            f \in BOOLEAN, i \in [1..ni -> PageImages] } :
        ni \in 0..(MaxItems - nb - nt) } :
        nt \in 0..(MaxItems - nb) } :
        nb \in 0..MaxItems }

InitPage ==
    /\ doc \in { <<pg>> : pg \in RichPages }
    /\ calls = <<>> /\ temp_dir = <<>>
    /\ table_data = <<>> /\ markdown_table = <<>>
    /\ block = NoBlock /\ text_item = <<>>
    /\ ServiceIdle
    /\ AppIdle

NextPage == Len(calls) < 1 /\ ExtractPageMarkdown(1)

SpecPage == InitPage /\ [][NextPage]_vars

----------------------------------------------------------------------------
(* One page holding one paragraph of a given number of words, extracted    *)
(* once.                                                                   *)

\* n words of one letter, separated by single spaces
WordsText(n) == [k \in 1..(2 * n - 1) |-> IF k % 2 = 1 THEN "w" ELSE " "]

WordyPages ==
    { [blocks |-> <<TextBlock(<<0, 75, 100, 95>>, WordsText(n), 12)>>,
       tables |-> <<>>, find_tables_raises |-> FALSE, images |-> <<>>] :
      n \in 0..MaxWords }

InitReading ==
    /\ doc \in { <<pg>> : pg \in WordyPages }
    /\ calls = <<>> /\ temp_dir = <<>>
    /\ table_data = <<>> /\ markdown_table = <<>>
    /\ block = NoBlock /\ text_item = <<>>
    /\ ServiceIdle
    /\ AppIdle

SpecReading == InitReading /\ [][NextPage]_vars

-----------------------------------------------------------------------------
(* A document of several pages, extracted page by page, any page any       *)
(* number of times.                                                        *)

\* an empty page, a page of text only, a page with one image, a page with
\* two images and a table
DocPages == {
    [blocks |-> <<>>, tables |-> <<>>, find_tables_raises |-> FALSE,
     images |-> <<>>],
    [blocks |-> <<TextBlock(<<0, 75, 100, 95>>, <<"a", " ", "b">>, 12)>>,
     tables |-> <<>>, find_tables_raises |-> FALSE, images |-> <<>>],
    [blocks |-> <<>>, tables |-> <<>>, find_tables_raises |-> FALSE,
     images |-> <<[xref |-> 1, n |-> 3, alpha |-> 0,
                   bbox |-> <<0, 100, 50, 150>>, fails |-> "none"]>>],
    [blocks |-> <<TextBlock(<<0, 100, 100, 120>>, Summary, 20)>>,
     tables |-> <<[bbox |-> <<0, 50, 100, 70>>, extract_raises |-> FALSE,
                   data |-> << <<<<"h">>, <<"k">>>>, <<<<"v">>>> >>]>>,
     find_tables_raises |-> FALSE,
     images |-> <<[xref |-> 2, n |-> 4, alpha |-> 1,
                   bbox |-> <<0, 50, 50, 60>>, fails |-> "none"],
                  [xref |-> 3, n |-> 3, alpha |-> 0,
                   bbox |-> <<0, 75, 50, 90>>, fails |-> "none"]>>] }

Docs == UNION { [1..n -> DocPages] : n \in 1..MaxPages }

Init ==
    /\ doc \in Docs
    /\ calls = <<>> /\ temp_dir = <<>>
    /\ table_data = <<>> /\ markdown_table = <<>>
    /\ block = NoBlock /\ text_item = <<>>
    /\ ServiceIdle
    /\ AppIdle

Next ==
    /\ Len(calls) < MaxCalls
    /\ \E page_num \in (0 - 1)..(Len(doc) + 1) : ExtractPageMarkdown(page_num)

Spec == Init /\ [][Next]_vars

-----------------------------------------------------------------------------
(* The temp-image route of the server: GET /api/temp-image/{filepath}.     *)
(* A path is the sequence of its segments, a segment a sequence of         *)
(* characters; a node of the file system is a file, a directory or a       *)
(* symbolic link.                                                          *)

\* tempfile.gettempdir()
TempDir == <<<<"t", "m", "p">>>>

Node(kind, target, data, readable) ==
    [kind |-> kind, target |-> target, data |-> data, readable |-> readable]

File(p, data) == [path |-> p, node |-> Node("file", <<>>, data, TRUE)]

Dir(p) == [path |-> p, node |-> Node("dir", <<>>, "", TRUE)]

Link(p, target) == [path |-> p, node |-> Node("link", target, "", TRUE)]

\* what is always there: an extracted image in the temp directory, a file
\* outside it, and a file in a directory beside it whose name begins with
\* the temp directory's name
BaseEntries == {
    Dir(TempDir),
    File(<<<<"t", "m", "p">>, <<"a", ".", "p", "n", "g">>>>, "A"),
    Dir(<<<<"e", "t", "c">>>>),
    File(<<<<"e", "t", "c">>, <<"p", "a", "s", "s", "w", "d">>>>, "P"),
    Dir(<<<<"t", "m", "p", "x">>>>),
    File(<<<<"t", "m", "p", "x">>, <<"s", ".", "p", "n", "g">>>>, "S") }

\* what may be there: a subdirectory with an image, an image that cannot be
\* read, and links out of the temp directory
SubEntries == { Dir(<<<<"t", "m", "p">>, <<"s", "u", "b">>>>), File(<<<<"t", "m", "p">>, <<"s", "u", "b">>, <<"b", ".", "p", "n", "g">>>>, "B") }

OptionalEntries == {
    {[path |-> <<<<"t", "m", "p">>, <<"u", ".", "p", "n", "g">>>>, node |-> Node("file", <<>>, "U", FALSE)]},
    {Link(<<<<"t", "m", "p">>, <<"l">>>>, <<<<"e", "t", "c">>, <<"p", "a", "s", "s", "w", "d">>>>)},
    {Link(<<<<"t", "m", "p">>, <<"k">>>>, <<<<"t", "m", "p", "x">>, <<"s", ".", "p", "n", "g">>>>)},
    {Link(<<<<"t", "m", "p">>, <<"d">>>>, <<<<"t", "m", "p", "x">>>>)},
    SubEntries }

FsOf(entries) ==
    [p \in {e.path : e \in entries} |->
        (CHOOSE e \in entries : e.path = p).node]

FileSystems ==
    { FsOf(BaseEntries \cup UNION chosen) : chosen \in SUBSET OptionalEntries }

\* the filepath of a request
FilePaths == {
    <<"a", ".", "p", "n", "g">>,
    <<"s", "u", "b", "/", "b", ".", "p", "n", "g">>,
    <<".", "/", "a", ".", "p", "n", "g">>,
    <<"n", "o", "n", "e", ".", "p", "n", "g">>,
    <<"s", "u", "b">>,
    <<"u", ".", "p", "n", "g">>,
    <<"l">>,
    <<"k">>,
    <<"d", "/", "s", ".", "p", "n", "g">>,
    <<".", ".", "/", "e", "t", "c", "/", "p", "a", "s", "s", "w", "d">>,
    <<"s", "u", "b", "/", ".", ".", "/", "a", ".", "p", "n", "g">>,
    <<"a", ".", ".", "p", "n", "g">>,
    <<"/", "e", "t", "c", "/", "p", "a", "s", "s", "w", "d">>,
    <<"\\", "e", "t", "c">> }

\* the segments of a path string: pathlib drops empty segments and "."
Segments(s) ==
    SelectSeq(SplitOn(s, "/"), LAMBDA seg : seg # <<>> /\ seg # <<".">>)

RECURSIVE Resolve(_, _, _)
\* Path.resolve(): base is resolved already; the segments of rest are
\* appended one by one, ".." dropping the last segment and a symbolic link
\* being replaced by its target
Resolve(fs, base, rest) ==
    IF rest = <<>> THEN base
    ELSE IF Head(rest) = <<".", ".">>
    THEN Resolve(fs, SubSeq(base, 1, Len(base) - 1), Tail(rest))
    ELSE LET next == Append(base, Head(rest))
         IN  IF next \in DOMAIN fs /\ fs[next].kind = "link"
             THEN Resolve(fs, fs[next].target, Tail(rest))
             ELSE Resolve(fs, next, Tail(rest))

\* str(path)
StrOf(p) ==
    IF p = <<>> THEN <<"/">>
    ELSE Concat([k \in DOMAIN p |-> <<"/">> \o p[k]])

\* s.startswith(prefix)
StartsWith(s, prefix) ==
    Len(s) >= Len(prefix) /\ SubSeq(s, 1, Len(prefix)) = prefix

Answer(filepath, status, detail, read, content) ==
    [filepath |-> filepath, status |-> status, detail |-> detail,
     read |-> read, content |-> content]

\* get_temp_image(filepath): the answer, and in read the path that was
\* opened, if one was
TempImage(fs, filepath) ==
    IF \/ HasAnySub(filepath, {<<".", ".">>})
       \/ StartsWith(filepath, <<"/">>)
       \/ StartsWith(filepath, <<"\\">>)
    THEN Answer(filepath, 400, "Invalid filepath", <<>>, "")
    ELSE LET temp_dir_resolved == Resolve(fs, <<>>, TempDir)
             img_path == Resolve(fs, temp_dir_resolved, Segments(filepath))
         IN  IF ~StartsWith(StrOf(img_path), StrOf(temp_dir_resolved))
             THEN Answer(filepath, 400, "Invalid filepath", <<>>, "")
             ELSE IF img_path \notin DOMAIN fs \/ fs[img_path].kind # "file"
             THEN Answer(filepath, 404, "Image not found", <<>>, "")
             ELSE IF ~fs[img_path].readable
             THEN Answer(filepath, 500, "Failed to read image",
                         <<img_path>>, "")
             ELSE Answer(filepath, 200, "", <<img_path>>, fs[img_path].data)

\* the variables of the page processor, unused
ProcessorIdle ==
    /\ doc = <<>> /\ calls = <<>> /\ temp_dir = <<>>
    /\ table_data = <<>> /\ markdown_table = <<>>
    /\ block = NoBlock /\ text_item = <<>>

InitTempImage ==
    /\ files \in FileSystems
    /\ response = <<>>
    /\ documents = <<>> /\ issued = {} /\ closed = {} /\ tool_call = <<>>
    /\ translated = <<>>
    /\ ProcessorIdle
    /\ AppIdle

GetTempImage(filepath) ==
    /\ response' = <<TempImage(files, filepath)>>
    /\ UNCHANGED <<files, documents, issued, closed, tool_call, translated>>
    /\ UNCHANGED processor_vars
    /\ UNCHANGED app_vars

NextTempImage == \E filepath \in FilePaths : GetTempImage(filepath)

SpecTempImage == InitTempImage /\ [][NextTempImage]_vars

-----------------------------------------------------------------------------
(* The PDF MCP server: a store of open documents keyed by doc_id, and the  *)
(* tools that work on it.                                                  *)

\* the doc_ids generate_doc_id can return
DocIds == 1..MaxIds

\* an occurrence of the query on a page: its rectangle and the text around it
Hit(x0, y0, around) == [bbox |-> <<x0, y0, x0 + 10, y0 + 10>>, around |-> around]

\* the PDF files on disk: one of two pages where "a" occurs twice on page 1
\* and once on page 2, and one of a single page where it does not occur
PdfA ==
    [path |-> <<"/", "t", "m", "p", "/", "a", ".", "p", "d", "f">>,
     pages |-> << [text |-> <<"a", " ", "a">>,
                   hits |-> <<Hit(0, 0, <<" ", "a", " ", "a", NL>>),
                              Hit(20, 0, <<"a", " ", "a">>)>>],
                  [text |-> <<"b", "a">>,
                   hits |-> <<Hit(10, 0, <<"b", "a", NL>>)>>] >>]

PdfB ==
    [path |-> <<"/", "t", "m", "p", "/", "b", ".", "p", "d", "f">>,
     pages |-> << [text |-> <<"b">>, hits |-> <<>>] >>]

PdfFiles == {PdfA, PdfB}

\* files fitz.open cannot open: one that is not there, one that is no PDF
MissingPath == <<"/", "t", "m", "p", "/", "n", "o", "n", "e", ".", "p", "d", "f">>

InvalidPath == <<"/", "t", "m", "p", "/", "b", "a", "d", ".", "p", "d", "f">>

\* the paths handed to open_pdf
OpenPaths == {
    PdfA.path, PdfB.path, MissingPath, InvalidPath,
    <<"/", "e", "t", "c", "/", "x", ".", "p", "d", "f">>,
    <<"/", "t", "m", "p", "/", ".", ".", "/", "e", "t", "c", "/", "x", ".", "p", "d", "f">>,
    <<"a", ".", "p", "d", "f">> }

\* Path.cwd()
Cwd == <<<<"s", "r", "v">>, <<"a", "p", "p">>>>

\* allowed_paths of _is_allowed_path
AllowedPaths == { <<<<"U", "s", "e", "r", "s">>>>, <<<<"t", "m", "p">>>>, Cwd, TempDir }

\* Path(path).resolve(), no symbolic link on the way
ResolvePath(path) ==
    Resolve(<<>>, IF StartsWith(path, <<"/">>) THEN <<>> ELSE Cwd,
            Segments(path))

\* Path.is_relative_to
IsRelativeTo(p, root) ==
    Len(p) >= Len(root) /\ SubSeq(p, 1, Len(root)) = root

\* _is_allowed_path
IsAllowedPath(path) ==
    \E allowed_path \in AllowedPaths :
        IsRelativeTo(ResolvePath(path), allowed_path)

\* an id taken again once the document count allows it
GenerateDocId_Counter(ids, store) == {Cardinality(DOMAIN store) + 1}

\* generate_doc_id: a uuid4, an id no earlier call has returned
GenerateDocId(ids, store) == DocIds \ ids

\* del documents[doc_id] left out
Del_Kept(store, doc_id) == store

\* del documents[doc_id]
Del(store, doc_id) == [i \in DOMAIN store \ {doc_id} |-> store[i]]

\* documents[doc_id] = doc
Put(store, doc_id, d) ==
    [i \in DOMAIN store \cup {doc_id} |-> IF i = doc_id THEN d ELSE store[i]]

Raise(type, message) == <<[type |-> type, message |-> message]>>

InvalidDocId == Raise("ValueError", "Invalid or missing doc_id")

\* _validate_page_range
PageRangeError(d, page) ==
    IF page < 1 \/ page > Len(d.pages)
    THEN Raise("ValueError", "Page number out of range") ELSE <<>>

\* page.search_for(query): the query that occurs in the files is "a"
SearchFor(page, query) == IF query = <<"a">> THEN page.hits ELSE <<>>

RECURSIVE SearchPage(_, _, _, _, _)
\* the loop over the instances of one page from index k on: append, then
\* stop when len(results) >= max_hits
SearchPage(page_num, text_instances, k, results, max_hits) ==
    IF k > Len(text_instances) THEN results
    ELSE LET inst == text_instances[k]
             appended == Append(results,
                 [page |-> page_num, text |-> Strip(inst.around),
                  bbox |-> inst.bbox])
         IN  IF Len(appended) >= max_hits THEN appended
             ELSE SearchPage(page_num, text_instances, k + 1, appended,
                             max_hits)

RECURSIVE SearchPages(_, _, _, _, _)
\* the loop over the pages from page_num on; the test after each page
SearchPages(d, query, page_num, results, max_hits) ==
    IF page_num > Len(d.pages) THEN results
    ELSE LET after == SearchPage(page_num,
                          SearchFor(d.pages[page_num], query), 1, results,
                          max_hits)
         IN  IF Len(after) >= max_hits THEN after
             ELSE SearchPages(d, query, page_num + 1, after, max_hits)

\* the values of max_hits, 20 the default
MaxHitsValues == {0 - 1, 0, 1, 2, 20}

Queries == {<<>>, <<"a">>, <<"z">>}

\* the record of a tool call: its arguments (<<>> or 0 for those the tool
\* does not have), what it raised or returned, the store and the live ids
\* before it, and whether fitz.open was called
ToolCall(tool, doc_id, path, page, query, max_hits, raised, returned, touched) ==
    [tool |-> tool, doc_id |-> doc_id, path |-> path, page |-> page,
     query |-> query, max_hits |-> max_hits, raised |-> raised,
     returned |-> returned, touched |-> touched,
     before |-> documents, issued_before |-> issued,
     live_before |-> issued \ closed]

\* a tool that reads the store: it leaves store and ids alone
Reads(call) ==
    /\ tool_call' = <<call>>
    /\ UNCHANGED <<documents, issued, closed>>
    /\ UNCHANGED <<files, response, translated>>
    /\ UNCHANGED processor_vars
    /\ UNCHANGED app_vars

\* open_pdf(path)
OpenPdf(path) ==
    IF ~IsAllowedPath(path)
    THEN Reads(ToolCall("open_pdf", 0, path, 0, <<>>, 0,
                        Raise("ValueError", "Access denied for path"),
                        <<>>, FALSE))
    ELSE IF \A f \in PdfFiles : f.path # path
    THEN Reads(ToolCall("open_pdf", 0, path, 0, <<>>, 0,
                        Raise("RuntimeError", "Failed to open PDF"),
                        <<>>, TRUE))
    ELSE \E doc_id \in GenerateDocId(issued, documents) :
            LET opened == CHOOSE f \in PdfFiles : f.path = path
            IN  /\ documents' = Put(documents, doc_id, opened)
                /\ issued' = issued \cup {doc_id}
                /\ tool_call' = <<ToolCall("open_pdf", 0, path, 0, <<>>, 0,
                                           <<>>, <<doc_id>>, TRUE)>>
                /\ UNCHANGED closed
                /\ UNCHANGED <<files, response, translated>>
                /\ UNCHANGED processor_vars
                /\ UNCHANGED app_vars

\* page_count(doc_id)
PageCount(doc_id) ==
    Reads(IF doc_id \notin DOMAIN documents
          THEN ToolCall("page_count", doc_id, <<>>, 0, <<>>, 0,
                        InvalidDocId, <<>>, FALSE)
          ELSE ToolCall("page_count", doc_id, <<>>, 0, <<>>, 0,
                        <<>>, <<Len(documents[doc_id].pages)>>, FALSE))

\* extract_text(doc_id, page)
ExtractText(doc_id, page) ==
    Reads(IF doc_id \notin DOMAIN documents
          THEN ToolCall("extract_text", doc_id, <<>>, page, <<>>, 0,
                        InvalidDocId, <<>>, FALSE)
          ELSE IF PageRangeError(documents[doc_id], page) # <<>>
          THEN ToolCall("extract_text", doc_id, <<>>, page, <<>>, 0,
                        PageRangeError(documents[doc_id], page), <<>>, FALSE)
          ELSE ToolCall("extract_text", doc_id, <<>>, page, <<>>, 0,
                        <<>>, <<documents[doc_id].pages[page].text>>, FALSE))

\* render_page_png(doc_id, page): the file it returns is named after the
\* page and a random suffix
RenderPagePng(doc_id, page) ==
    Reads(IF doc_id \notin DOMAIN documents
          THEN ToolCall("render_page_png", doc_id, <<>>, page, <<>>, 0,
                        InvalidDocId, <<>>, FALSE)
          ELSE IF PageRangeError(documents[doc_id], page) # <<>>
          THEN ToolCall("render_page_png", doc_id, <<>>, page, <<>>, 0,
                        PageRangeError(documents[doc_id], page), <<>>, FALSE)
          ELSE ToolCall("render_page_png", doc_id, <<>>, page, <<>>, 0,
                        <<>>,
                        <<<<"p", "d", "f", "_", "p", "a", "g", "e", "_">>
                              \o IntToStr(page)>>,
                        FALSE))

\* search_text(doc_id, query, max_hits)
SearchText(doc_id, query, max_hits) ==
    Reads(IF query = <<>>
          THEN ToolCall("search_text", doc_id, <<>>, 0, query, max_hits,
                        Raise("ValueError",
                              "Missing required parameter: query"),
                        <<>>, FALSE)
          ELSE IF doc_id \notin DOMAIN documents
          THEN ToolCall("search_text", doc_id, <<>>, 0, query, max_hits,
                        InvalidDocId, <<>>, FALSE)
          ELSE ToolCall("search_text", doc_id, <<>>, 0, query, max_hits,
                        <<>>,
                        <<SearchPages(documents[doc_id], query, 1, <<>>,
                                      max_hits)>>,
                        FALSE))

\* close_pdf(doc_id)
ClosePdf(doc_id) ==
    IF doc_id \notin DOMAIN documents
    THEN Reads(ToolCall("close_pdf", doc_id, <<>>, 0, <<>>, 0,
                        InvalidDocId, <<>>, FALSE))
    ELSE /\ documents' = Del(documents, doc_id)
         /\ closed' = closed \cup {doc_id}
         /\ tool_call' = <<ToolCall("close_pdf", doc_id, <<>>, 0, <<>>, 0,
                                    <<>>, <<"Document closed successfully">>,
                                    FALSE)>>
         /\ UNCHANGED issued
         /\ UNCHANGED <<files, response, translated>>
         /\ UNCHANGED processor_vars
         /\ UNCHANGED app_vars

InitStore ==
    /\ documents = <<>> /\ issued = {} /\ closed = {} /\ tool_call = <<>>
    /\ files = <<>> /\ response = <<>> /\ translated = <<>>
    /\ ProcessorIdle
    /\ AppIdle

NextStore ==
    \/ \E path \in OpenPaths : OpenPdf(path)
    \/ \E doc_id \in DocIds : PageCount(doc_id)
    \/ \E doc_id \in DocIds : \E page \in 0..MaxPage : ExtractText(doc_id, page)
    \/ \E doc_id \in DocIds : \E page \in 0..MaxPage : RenderPagePng(doc_id, page)
    \/ \E doc_id \in DocIds : \E query \in Queries :
           \E max_hits \in MaxHitsValues : SearchText(doc_id, query, max_hits)
    \/ \E doc_id \in DocIds : ClosePdf(doc_id)

SpecStore == InitStore /\ [][NextStore]_vars

-----------------------------------------------------------------------------
(* The translator MCP server: translate_paragraphs.  A glossary is a       *)
(* function from terms to translations; what the LLM answers is an input   *)
(* of the call.                                                            *)

\* len(glossary) < 200: the size from which no new terms are extracted
GlossaryLimit == 200

RECURSIVE SplitOnSub(_, _)
\* s.split(sep) for a separator of several characters
SplitOnSub(s, sep) ==
    IF \A i \in 1..Len(s) : ~At(s, i, sep) THEN <<s>>
    ELSE LET k == CHOOSE i \in 1..Len(s) :
                      At(s, i, sep) /\ \A j \in 1..(i - 1) : ~At(s, j, sep)
         IN  <<SubSeq(s, 1, k - 1)>>
                 \o SplitOnSub(SubSeq(s, k + Len(sep), Len(s)), sep)

\* [f(x) for x in seq if x]
StrippedNonEmpty(seq) ==
    LET stripped == [k \in DOMAIN seq |-> Strip(seq[k])]
    IN  SelectSeq(stripped, LAMBDA x : x # <<>>)

\* _split_paragraphs
SplitParagraphs(text) == StrippedNonEmpty(SplitOnSub(text, <<NL, NL>>))

\* the start clamped to the last paragraph
Slice_Clamped(seq, a, b) ==
    SubSeq(seq, Max(1, Min(a + 1, Len(seq))), Min(b, Len(seq)))

\* seq[a:b] for 0 <= a
Slice(seq, a, b) == SubSeq(seq, a + 1, Min(b, Len(seq)))

\* sub in s
Contains(s, sub) == \E i \in 1..Len(s) : At(s, i, sub)

\* s.split(sep, 1)[-1]: what follows the first sep, s itself without one
AfterFirst(s, sep) ==
    IF ~Contains(s, sep) THEN s
    ELSE LET k == CHOOSE i \in 1..Len(s) :
                      At(s, i, sep) /\ \A j \in 1..(i - 1) : ~At(s, j, sep)
         IN  SubSeq(s, k + Len(sep), Len(s))

\* the test for a numbered line, and the content of one
IsNumbered(line) ==
    /\ line[1] \in Digits
    /\ \/ Contains(Slice(line, 0, 5), <<".", " ">>)
       \/ Contains(Slice(line, 0, 5), <<")", " ">>)

NumberedContent(line) ==
    IF Contains(line, <<".", " ">>) THEN AfterFirst(line, <<".", " ">>)
    ELSE AfterFirst(line, <<")", " ">>)

RECURSIVE ParseLines(_, _, _)
\* the loop of _parse_numbered_translations over the stripped, non-empty
\* lines, and the final flush
ParseLines(lines, translations, current_translation) ==
    LET flushed == IF current_translation # <<>>
                   THEN Append(translations,
                               Join(current_translation, <<" ">>))
                   ELSE translations
    IN  IF lines = <<>> THEN flushed
        ELSE LET line == Head(lines)
             IN  IF IsNumbered(line)
                 THEN ParseLines(Tail(lines), flushed,
                                 <<NumberedContent(line)>>)
                 ELSE IF current_translation # <<>> \/ translations # <<>>
                 THEN ParseLines(Tail(lines), translations,
                                 Append(current_translation, line))
                 ELSE ParseLines(Tail(lines), translations,
                                 current_translation)

\* _parse_numbered_translations
ParseNumberedTranslations(text) ==
    ParseLines(StrippedNonEmpty(SplitOn(Strip(text), NL)), <<>>, <<>>)

\* dict.get(key, default)
Get(dict, key, default) == IF key \in DOMAIN dict THEN dict[key] ELSE default

\* glossary.update(new_terms)
Update(glossary, new_terms) ==
    [term \in DOMAIN glossary \cup DOMAIN new_terms |->
        IF term \in DOMAIN new_terms THEN new_terms[term]
        ELSE glossary[term]]

\* the empty dict
EmptyDict == <<>>

\* a term and a translation of it
Term(k) == <<"term", k>>

Translation(k, version) == <<"translation", k, version>>

StyleGuide == [style |-> "technical", tone |-> "formal", domain |-> "AI"]

\* the context given: none, an empty one, one with a glossary of one term,
\* one with the glossary, the style guide and a previous paragraph, and one
\* whose glossary is full
Contexts == {
    <<>>,
    <<EmptyDict>>,
    <<[glossary |-> [term \in {Term(1)} |-> Translation(1, 1)]]>>,
    <<[glossary |-> [term \in {Term(1), Term(2)} |->
                        Translation(term[2], 1)],
       previous_paragraphs |->
           <<[original |-> <<"o">>, translation |-> <<"t">>]>>,
       style_guide |-> StyleGuide]>>,
    <<[glossary |-> [term \in {Term(k) : k \in 1..GlossaryLimit} |->
                        Translation(term[2], 1)],
       style_guide |-> StyleGuide]>> }

\* the text of the file
FileTexts == {
    <<>>,
    <<"p">>,
    <<"p", NL, NL, "q", " ", "r", NL, NL, NL, NL, " ", "s", " ", NL>>,
    <<"a", NL, NL, "b", NL, NL, "c", NL, NL, "d">> }

\* what _parse_json_safe makes of the LLM's answer to the style request:
\* {} for an answer that is no JSON
StyleResults == {
    EmptyDict,
    [style |-> "casual"],
    [style |-> "academic", tone |-> "neutral", domain |-> "physics",
     initial_glossary |-> [term \in {Term(3)} |-> Translation(3, 1)]] }

\* the LLM's answer to the translation request
TranslationResults == {
    <<>>,
    <<"x">>,
    <<"1", ".", " ", "x">>,
    <<"1", ".", " ", "x", NL, "2", ".", " ", "y", NL, " ", "z">>,
    <<"1", ")", " ", "x", ".", " ", "y", NL, NL, "2", ")", " ", "z">> }

\* what _parse_json_safe makes of the LLM's answer to the term request: no
\* term, a new term, a term of the glossary with another translation
TermResults == {
    EmptyDict,
    [term \in {Term(4)} |-> Translation(4, 1)],
    [term \in {Term(1), Term(5)} |-> Translation(term[2], 2)] }

\* which LLM request of a call fails, if one does
Failing == {"none", "style", "translation", "terms"}

\* seq up to and including the first x
UpTo(seq, x) ==
    SubSeq(seq, 1, CHOOSE k \in DOMAIN seq :
                       seq[k] = x /\ \A j \in 1..(k - 1) : seq[j] # x)

\* translate_paragraphs: the arguments, the LLM requests made, and what is
\* returned, or raised when the request named by failing is made and fails
TranslateResult(file_text, start, count, context, extract_new_terms, style_result, translation_result, term_result, failing) ==
    LET all_paragraphs == SplitParagraphs(file_text)
        end == Min(start + count, Len(all_paragraphs))
        paragraphs == Slice(all_paragraphs, start, end)
        args == [file_text |-> file_text, start |-> start, count |-> count,
                 context |-> context,
                 extract_new_terms |-> extract_new_terms]
    IN  IF paragraphs = <<>>
        THEN [args |-> args, requests |-> <<>>,
              raised |-> <<>>, failed |-> FALSE,
              paragraphs |-> paragraphs,
              translations |-> <<>>, start |-> start, count |-> 0,
              context |-> IF context = <<>> \/ context[1] = EmptyDict
                          THEN EmptyDict ELSE context[1],
              stats |-> [translated |-> 0, new_terms |-> 0,
                         glossary_size |-> 0]]
        ELSE LET glossary ==
                     IF context = <<>>
                     THEN Get(style_result, "initial_glossary", EmptyDict)
                     ELSE Get(context[1], "glossary", EmptyDict)
                 style_guide ==
                     IF context = <<>>
                     THEN [style |-> Get(style_result, "style",
                                         "maintain original"),
                           tone |-> Get(style_result, "tone", "neutral"),
                           domain |-> Get(style_result, "domain", "general")]
                     ELSE Get(context[1], "style_guide", EmptyDict)
                 translations ==
                     ParseNumberedTranslations(translation_result)
                 extracts ==
                     extract_new_terms
                         /\ Cardinality(DOMAIN glossary) < GlossaryLimit
                 new_terms == IF extracts THEN term_result ELSE EmptyDict
                 updated == IF extracts THEN Update(glossary, new_terms)
                            ELSE glossary
                 pairs == Min(Len(paragraphs), Len(translations))
                 new_previous ==
                     [k \in 1..pairs |->
                         [original |-> paragraphs[k],
                          translation |-> translations[k]]]
                 requests ==
                     (IF context = <<>> THEN <<"style">> ELSE <<>>)
                         \o <<"translation">>
                         \o (IF failing \in {"style", "translation"}
                             THEN <<>>
                             ELSE IF extracts THEN <<"terms">> ELSE <<>>)
             IN  IF \E k \in DOMAIN requests : requests[k] = failing
                 THEN [args |-> args, requests |-> UpTo(requests, failing),
                       raised |-> <<"RuntimeError">>, failed |-> TRUE,
                       paragraphs |-> paragraphs,
                       translations |-> <<>>, start |-> start, count |-> 0,
                       context |-> EmptyDict,
                       stats |-> [translated |-> 0, new_terms |-> 0,
                                  glossary_size |-> 0]]
                 ELSE [args |-> args, requests |-> requests,
                       raised |-> <<>>, failed |-> FALSE,
                       paragraphs |-> paragraphs,
                       translations |-> translations, start |-> start,
                       count |-> Len(translations),
                       context |->
                           [glossary |-> updated,
                            previous_paragraphs |->
                                SubSeq(new_previous, Max(1, pairs - 1), pairs),
                            style_guide |-> style_guide],
                       stats |-> [translated |-> Len(translations),
                                  new_terms |-> Cardinality(DOMAIN new_terms),
                                  glossary_size |->
                                      Cardinality(DOMAIN updated)]]

\* [0, total // 3, total * 2 // 3] if total > 3 else list(range(total))
SampleIndices(total) ==
    IF total > 3 THEN <<0, total \div 3, (total * 2) \div 3>>
    ELSE [k \in 1..total |-> k - 1]

\* analyze_document: what is returned, or raised when the LLM request fails
AnalyzeResult(file_text, style_result, failing) ==
    LET paragraphs == SplitParagraphs(file_text)
        total == Len(paragraphs)
        sample_indices ==
            SelectSeq(SampleIndices(total), LAMBDA i : i < total)
        sample_paragraphs ==
            [k \in DOMAIN sample_indices |-> paragraphs[sample_indices[k] + 1]]
    IN  IF failing = "style"
        THEN [file_text |-> file_text, requests |-> <<"style">>,
              sample_paragraphs |-> sample_paragraphs,
              raised |-> <<"RuntimeError">>, failed |-> TRUE, returned |-> <<>>]
        ELSE [file_text |-> file_text, requests |-> <<"style">>,
              sample_paragraphs |-> sample_paragraphs,
              raised |-> <<>>, failed |-> FALSE,
              returned |-> <<[total_paragraphs |-> total,
                              file_size |-> Len(file_text),
                              encoding |-> "utf-8",
                              style_analysis |-> style_result]>>]

InitTranslate ==
    /\ translated = <<>>
    /\ files = <<>> /\ response = <<>>
    /\ documents = <<>> /\ issued = {} /\ closed = {} /\ tool_call = <<>>
    /\ ProcessorIdle
    /\ AppIdle

TranslateParagraphs ==
    /\ translated = <<>> /\ analyzed = <<>>
    /\ \E file_text \in FileTexts : \E start \in 0..MaxStart :
       \E count \in 0..MaxCount : \E context \in Contexts :
       \E extract_new_terms \in BOOLEAN : \E style_result \in StyleResults :
       \E translation_result \in TranslationResults :
       \E term_result \in TermResults : \E failing \in Failing :
           translated' = <<TranslateResult(file_text, start, count, context,
                               extract_new_terms, style_result,
                               translation_result, term_result, failing)>>
    /\ UNCHANGED <<files, response, documents, issued, closed, tool_call>>
    /\ UNCHANGED processor_vars
    /\ UNCHANGED app_vars

AnalyzeDocument ==
    /\ translated = <<>> /\ analyzed = <<>>
    /\ \E file_text \in FileTexts : \E style_result \in StyleResults :
       \E failing \in {"none", "style"} :
           analyzed' = <<AnalyzeResult(file_text, style_result, failing)>>
    /\ UNCHANGED <<chat_vars, frontend_vars, session_vars>>
    /\ UNCHANGED service_vars
    /\ UNCHANGED processor_vars

NextTranslate == TranslateParagraphs \/ AnalyzeDocument

SpecTranslate == InitTranslate /\ [][NextTranslate]_vars


-----------------------------------------------------------------------------
(* The chat routes: the registry of streaming sessions and abort.  Every   *)
(* chat_query request builds its own client, then its response generator   *)
(* runs step by step between awaits; the registry is touched only under    *)
(* session_lock, so each touch is one step.                                *)

None == "None"
SessionIds == {"s1", "s2"}

\* a chat_query request and its client are known by the same number
Clients == 1..MaxStreams

NoStream == [pc |-> "idle", sessionId |-> None, current_session_id |-> None]

\* dict.pop(key, None)
Pop(d, key) == [k \in DOMAIN d \ {key} |-> d[k]]

\* the ids the SDK may give a session at init: the resumed id, or an id no
\* running stream and no registry entry uses
UnusedIds ==
    {s \in SessionIds :
        /\ s \notin DOMAIN active_sessions
        /\ \A c \in Clients :
              streams[c].pc \in {"querying", "streaming"} =>
                  s \notin {streams[c].sessionId, streams[c].current_session_id}}

InitIds(c) ==
    UnusedIds \cup ({streams[c].sessionId} \ {None})

\* the chat routes leave the rest of the program alone
OnlyChat ==
    /\ UNCHANGED <<analyzed, frontend_vars, session_vars>>
    /\ UNCHANGED service_vars
    /\ UNCHANGED processor_vars

\* chat_query up to the return of the StreamingResponse
ChatQuery(c, sessionId) ==
    /\ streams[c].pc = "idle"
    /\ streams' = [streams EXCEPT ![c] =
           [pc |-> "querying", sessionId |-> sessionId,
            current_session_id |-> sessionId]]
    /\ UNCHANGED <<active_sessions, aborted>>
    /\ OnlyChat

\* generate_response receives the init message and registers its client
RegisterSession(c, session_id) ==
    /\ streams[c].pc = "querying"
    /\ streams' = [streams EXCEPT ![c].pc = "streaming",
                                  ![c].current_session_id = session_id]
    /\ active_sessions' =
           [k \in DOMAIN active_sessions \cup {session_id} |->
               IF k = session_id THEN c ELSE active_sessions[k]]
    /\ UNCHANGED aborted
    /\ OnlyChat

\* generate_response ends, after the last message or on an exception raised
\* before or after the init message: the finally block
EndStream(c) ==
    /\ streams[c].pc \in {"querying", "streaming"}
    /\ streams' = [streams EXCEPT ![c].pc = "done"]
    /\ active_sessions' =
           IF streams[c].current_session_id # None
           THEN Pop(active_sessions, streams[c].current_session_id)
           ELSE active_sessions
    /\ UNCHANGED aborted
    /\ OnlyChat

\* chat_abort reporting an interrupt that raised as done
AbortAnswer_HidesFailure(sessions, session_id, raises) ==
    IF session_id = None
    THEN [sessionId |-> session_id, status_code |-> 400,
          detail |-> "sessionId is required", interrupted |-> <<>>]
    ELSE IF session_id \in DOMAIN sessions
    THEN [sessionId |-> session_id, status_code |-> 200,
          detail |-> "interrupted",
          interrupted |-> <<sessions[session_id]>>]
    ELSE [sessionId |-> session_id, status_code |-> 404,
          detail |-> "Session not found or not active", interrupted |-> <<>>]

\* what chat_abort answers and which client it interrupts
AbortAnswer(sessions, session_id, raises) ==
    IF session_id = None
    THEN [sessionId |-> session_id, status_code |-> 400,
          detail |-> "sessionId is required", interrupted |-> <<>>]
    ELSE IF session_id \in DOMAIN sessions
    THEN IF raises
         THEN [sessionId |-> session_id, status_code |-> 500,
               detail |-> "Failed to interrupt",
               interrupted |-> <<sessions[session_id]>>]
         ELSE [sessionId |-> session_id, status_code |-> 200,
               detail |-> "interrupted",
               interrupted |-> <<sessions[session_id]>>]
    ELSE [sessionId |-> session_id, status_code |-> 404,
          detail |-> "Session not found or not active", interrupted |-> <<>>]

ChatAbort(session_id, raises) ==
    /\ aborted' = <<[sessionId |-> session_id, interrupt_raises |-> raises,
                     answer |-> AbortAnswer(active_sessions, session_id, raises)]>>
    /\ UNCHANGED <<active_sessions, streams>>
    /\ OnlyChat

InitChat ==
    /\ active_sessions = <<>>
    /\ streams = [c \in Clients |-> NoStream]
    /\ aborted = <<>>
    /\ analyzed = <<>> /\ FrontendIdle /\ SessionsIdle
    /\ ServiceIdle
    /\ ProcessorIdle

NextChat ==
    \/ \E c \in Clients, sessionId \in SessionIds \cup {None} :
          ChatQuery(c, sessionId)
    \/ \E c \in Clients : \E session_id \in InitIds(c) :
          RegisterSession(c, session_id)
    \/ \E c \in Clients : EndStream(c)
    \/ \E session_id \in SessionIds \cup {None}, raises \in BOOLEAN :
          ChatAbort(session_id, raises)

SpecChat == InitChat /\ [][NextChat]_vars


-----------------------------------------------------------------------------
(* The file routes of the server: DELETE /api/files/{repo}/{path}, over    *)
(* the file systems of the temp-image route, with the repository "docs"    *)
(* rooted at the directory /tmp.                                           *)

\* workspace_config.repos: name and root
RepoRoot == [docs |-> TempDir]

\* the repository names of a request
RepoNames == {"docs", "nope"}

\* the path of a request: those of the temp-image route, and a file in the
\* directory beside the root whose name begins with the root's name
DeletePaths ==
    FilePaths \cup
    { <<".", ".", "/", "t", "m", "p", "x", "/", "s", ".", "p", "n", "g">> }

\* what unlink can do
UnlinkOutcomes == {"ok", "PermissionError", "OSError"}

\* Path(root) / path, resolved: an absolute path replaces the root
FilePath(fs, root, path) ==
    IF StartsWith(path, <<"/">>)
    THEN Resolve(fs, <<>>, Segments(path))
    ELSE Resolve(fs, Resolve(fs, <<>>, root), Segments(path))

Deleted(repo, path, status_code, detail, unlinked, fs) ==
    [repo |-> repo, path |-> path, status_code |-> status_code,
     detail |-> detail, unlinked |-> unlinked, files |-> fs]

\* delete_file(repo, path): the answer, the path that was unlinked, if one
\* was, and the file system left behind.  The HTTPException 403 is raised
\* inside the try block whose except clause answers 400.
DeleteFileResult(fs, repo, path, unlink) ==
    IF repo \notin DOMAIN RepoRoot
    THEN Deleted(repo, path, 404, "Repository not found", <<>>, fs)
    ELSE LET file_path == FilePath(fs, RepoRoot[repo], path)
             repo_root == Resolve(fs, <<>>, RepoRoot[repo])
         IN  IF ~StartsWith(StrOf(file_path), StrOf(repo_root))
             THEN Deleted(repo, path, 400, "Invalid path", <<>>, fs)
             ELSE IF file_path \notin DOMAIN fs \/ fs[file_path].kind # "file"
             THEN Deleted(repo, path, 404, "File not found", <<>>, fs)
             ELSE IF unlink = "PermissionError"
             THEN Deleted(repo, path, 403, "Permission denied", <<>>, fs)
             ELSE IF unlink = "OSError"
             THEN Deleted(repo, path, 500, "OSError", <<>>, fs)
             ELSE Deleted(repo, path, 200, "success", <<file_path>>,
                          [p \in DOMAIN fs \ {file_path} |-> fs[p]])

InitDelete ==
    /\ files \in FileSystems
    /\ response = <<>>
    /\ documents = <<>> /\ issued = {} /\ closed = {} /\ tool_call = <<>>
    /\ translated = <<>>
    /\ ProcessorIdle
    /\ AppIdle

DeleteFile(repo, path, unlink) ==
    /\ response' = <<DeleteFileResult(files, repo, path, unlink)>>
    /\ files' = response'[1].files
    /\ UNCHANGED <<documents, issued, closed, tool_call, translated>>
    /\ UNCHANGED processor_vars
    /\ UNCHANGED app_vars

NextDelete ==
    \E repo \in RepoNames, path \in DeletePaths, unlink \in UnlinkOutcomes :
        DeleteFile(repo, path, unlink)

SpecDelete == InitDelete /\ [][NextDelete]_vars


-----------------------------------------------------------------------------
(* The frontend tools: a tool call of the agent is put on a queue, pushed  *)
(* to the browser by the frontend-events stream, and answered by a POST to *)
(* the tool-result route.  A call_id is the number of the wrapper          *)
(* invocation that drew it; the future of an invocation is kept in its     *)
(* record, and pending_tool_calls maps a call_id to the invocation that    *)
(* owns the future.                                                        *)

ToolNames == {"get_visible_content", "get_selection"}

\* a tool-result request without call_id
NoCallId == 0

\* the call_ids a tool-result request can carry: none, the ids drawn so far
\* or later, and one that is never drawn
PostedIds == NoCallId..(MaxToolCalls + 1)

\* the result and error of a tool-result request: a result, an error, a
\* result with an empty error, and neither
Posts == {
    [result |-> "ok", error |-> None],
    [result |-> None, error |-> "boom"],
    [result |-> "ok", error |-> ""],
    [result |-> None, error |-> None] }

NewFuture == [done |-> FALSE, value |-> <<>>]

\* future.set_result(value)
SetResult(value) == [done |-> TRUE, value |-> <<value>>]

\* str(actual_result)
Str(v) == IF v = None THEN "None" ELSE v

\* the wrapper's conversion of the future's result to the MCP format
ToolResult(result) ==
    IF result.key = "error"
    THEN [content |-> <<"Error: ", result.value>>, is_error |-> TRUE]
    ELSE [content |-> <<Str(result.value)>>, is_error |-> FALSE]

\* complete_tool_call without the test that the future is not done
CompleteToolCall_Overwrites(ws, pending, call_id, result, error) ==
    IF call_id \in DOMAIN pending
    THEN [ws EXCEPT ![pending[call_id]].future =
             IF error # None /\ error # ""
             THEN SetResult([key |-> "error", value |-> error])
             ELSE SetResult([key |-> "result", value |-> result])]
    ELSE ws

\* complete_tool_call(call_id, result, error): the invocations afterwards
CompleteToolCall(ws, pending, call_id, result, error) ==
    IF call_id \in DOMAIN pending /\ ~ws[pending[call_id]].future.done
    THEN [ws EXCEPT ![pending[call_id]].future =
             IF error # None /\ error # ""
             THEN SetResult([key |-> "error", value |-> error])
             ELSE SetResult([key |-> "result", value |-> result])]
    ELSE ws

\* the frontend tools leave the rest of the program alone
OnlyFrontend ==
    /\ UNCHANGED <<analyzed, chat_vars, session_vars>>
    /\ UNCHANGED service_vars
    /\ UNCHANGED processor_vars

\* frontend_tool_wrapper up to its wait for the future
CallTool(name) ==
    /\ Len(wrappers) < MaxToolCalls
    /\ LET call_id == Len(wrappers) + 1
       IN  /\ wrappers' = Append(wrappers,
                  [pc |-> "waiting", future |-> NewFuture,
                   out |-> <<>>, raised |-> <<>>])
           /\ pending_tool_calls' =
                  [k \in DOMAIN pending_tool_calls \cup {call_id} |-> k]
           /\ frontend_tool_queue' = Append(frontend_tool_queue,
                  [type |-> "tool_call", call_id |-> call_id, name |-> name])
    /\ UNCHANGED <<delivered, posted>>
    /\ OnlyFrontend

\* frontend_events: a connected browser is sent the next message
FrontendEvents ==
    /\ frontend_tool_queue # <<>>
    /\ delivered' = delivered \cup {Head(frontend_tool_queue).call_id}
    /\ frontend_tool_queue' = Tail(frontend_tool_queue)
    /\ UNCHANGED <<wrappers, pending_tool_calls, posted>>
    /\ OnlyFrontend

\* chat_tool_result(request)
ChatToolResult(call_id, result, error) ==
    /\ IF call_id = NoCallId
       THEN /\ posted' = <<[call_id |-> call_id, status_code |-> 400,
                            body |-> "call_id is required"]>>
            /\ UNCHANGED wrappers
       ELSE /\ posted' = <<[call_id |-> call_id, status_code |-> 200,
                            body |-> "ok"]>>
            /\ wrappers' = CompleteToolCall(wrappers, pending_tool_calls,
                                            call_id, result, error)
    /\ UNCHANGED <<pending_tool_calls, frontend_tool_queue, delivered>>
    /\ OnlyFrontend

\* the wrapper is resumed with the result of its future, returns it in the
\* MCP format and drops its entry
ReturnResult(c) ==
    /\ c \in DOMAIN wrappers
    /\ wrappers[c].pc = "waiting"
    /\ wrappers[c].future.done
    /\ wrappers' = [wrappers EXCEPT
           ![c].pc = "returned",
           ![c].out = <<ToolResult(wrappers[c].future.value[1])>>]
    /\ pending_tool_calls' = Pop(pending_tool_calls, c)
    /\ UNCHANGED <<frontend_tool_queue, delivered, posted>>
    /\ OnlyFrontend

\* the 30 seconds of wait_for are over before the wrapper was resumed:
\* TimeoutError leaves the wrapper, which drops its entry on the way
Timeout_WhenDelivered(c) ==
    /\ c \in DOMAIN wrappers
    /\ c \in delivered
    /\ wrappers[c].pc = "waiting"
    /\ wrappers' = [wrappers EXCEPT ![c].pc = "raised",
                                    ![c].raised = <<"TimeoutError">>]
    /\ pending_tool_calls' = Pop(pending_tool_calls, c)
    /\ UNCHANGED <<frontend_tool_queue, delivered, posted>>
    /\ OnlyFrontend

Timeout_KeepsEntry(c) ==
    /\ c \in DOMAIN wrappers
    /\ wrappers[c].pc = "waiting"
    /\ wrappers' = [wrappers EXCEPT ![c].pc = "raised",
                                    ![c].raised = <<"TimeoutError">>]
    /\ UNCHANGED <<pending_tool_calls, frontend_tool_queue, delivered, posted>>
    /\ OnlyFrontend

Timeout(c) ==
    /\ c \in DOMAIN wrappers
    /\ wrappers[c].pc = "waiting"
    /\ wrappers' = [wrappers EXCEPT ![c].pc = "raised",
                                    ![c].raised = <<"TimeoutError">>]
    /\ pending_tool_calls' = Pop(pending_tool_calls, c)
    /\ UNCHANGED <<frontend_tool_queue, delivered, posted>>
    /\ OnlyFrontend

InitFrontend ==
    /\ FrontendIdle
    /\ analyzed = <<>> /\ ChatIdle /\ SessionsIdle
    /\ ServiceIdle
    /\ ProcessorIdle

NextFrontend ==
    \/ \E name \in ToolNames : CallTool(name)
    \/ FrontendEvents
    \/ \E call_id \in PostedIds, post \in Posts :
          ChatToolResult(call_id, post.result, post.error)
    \/ \E c \in 1..MaxToolCalls : ReturnResult(c)
    \/ \E c \in 1..MaxToolCalls : Timeout(c)

SpecFrontend == InitFrontend /\ [][NextFrontend]_vars

\* the event loop resumes a wrapper whose future has a result, and the timer
\* of wait_for fires
FrontendFairness ==
    \A c \in 1..MaxToolCalls :
        WF_vars(ReturnResult(c)) /\ WF_vars(Timeout(c))

SpecFrontendLive == SpecFrontend /\ FrontendFairness


-----------------------------------------------------------------------------
(* The session routes: one file per saved chat session, and sessions.json  *)
(* with the list of sessions and the id of the one last active.  A handler *)
(* has no await between its file operations, so it is one step.            *)

\* the session ids of the requests
StoredIds == {"s1", "s2", "s3"}

\* the data of a save request: with and without a title
SessionData == { [title |-> <<>>, createdAt |-> None],
                 [title |-> <<"T">>, createdAt |-> "t0"] }

\* the metadata save_session starts from when sessions.json does not exist
NoMeta == [sessions |-> <<>>, lastActiveSessionId |-> None]

\* session_meta of save_session; data.get("title", "New Chat")
SessionMeta(session_id, data) ==
    [id |-> session_id,
     title |-> IF data.title = <<>> THEN "New Chat" ELSE data.title[1],
     createdAt |-> data.createdAt]

\* the ids of a sessions list, in order
IdsOf(sessions) == [k \in DOMAIN sessions |-> sessions[k].id]

\* save_session: the metadata written
SaveMeta(m, session_id, data) ==
    LET old == IF m = <<>> THEN NoMeta ELSE m[1]
        existing == {k \in DOMAIN old.sessions : old.sessions[k].id = session_id}
        sessions ==
            IF existing # {}
            THEN [old.sessions EXCEPT
                     ![CHOOSE k \in existing : \A j \in existing : k <= j] =
                         SessionMeta(session_id, data)]
            ELSE Append(old.sessions, SessionMeta(session_id, data))
    IN  <<[sessions |-> sessions, lastActiveSessionId |-> session_id]>>

\* delete_session with lastActiveSessionId left as it was
DeleteMeta_KeepsLast(m, session_id) ==
    IF m = <<>> THEN m
    ELSE <<[sessions |-> SelectSeq(m[1].sessions,
                                   LAMBDA s : s.id # session_id),
            lastActiveSessionId |-> m[1].lastActiveSessionId]>>

\* delete_session: the metadata afterwards; nothing is written when
\* sessions.json does not exist
DeleteMeta(m, session_id) ==
    IF m = <<>> THEN m
    ELSE LET sessions == SelectSeq(m[1].sessions,
                                   LAMBDA s : s.id # session_id)
         IN  <<[sessions |-> sessions,
                lastActiveSessionId |->
                    IF m[1].lastActiveSessionId = session_id
                    THEN IF sessions # <<>> THEN sessions[1].id ELSE None
                    ELSE m[1].lastActiveSessionId]>>

\* the session routes leave the rest of the program alone
OnlySessions ==
    /\ UNCHANGED <<analyzed, chat_vars, frontend_vars>>
    /\ UNCHANGED service_vars
    /\ UNCHANGED processor_vars

SaveSession(session_id, data) ==
    /\ session_files' =
           [k \in DOMAIN session_files \cup {session_id} |->
               IF k = session_id THEN data ELSE session_files[k]]
    /\ meta' = SaveMeta(meta, session_id, data)
    /\ session_answer' = <<[op |-> "save", session_id |-> session_id,
                            status_code |-> 200]>>
    /\ OnlySessions

DeleteSession(session_id) ==
    /\ IF session_id \notin DOMAIN session_files
       THEN /\ session_answer' = <<[op |-> "delete", session_id |-> session_id,
                                    status_code |-> 404]>>
            /\ UNCHANGED <<session_files, meta>>
       ELSE /\ session_files' = Pop(session_files, session_id)
            /\ meta' = DeleteMeta(meta, session_id)
            /\ session_answer' = <<[op |-> "delete", session_id |-> session_id,
                                    status_code |-> 200]>>
    /\ OnlySessions

InitSessions ==
    /\ SessionsIdle
    /\ analyzed = <<>> /\ ChatIdle /\ FrontendIdle
    /\ ServiceIdle
    /\ ProcessorIdle

NextSessions ==
    \/ \E session_id \in StoredIds, data \in SessionData :
          SaveSession(session_id, data)
    \/ \E session_id \in StoredIds : DeleteSession(session_id)

SpecSessions == InitSessions /\ [][NextSessions]_vars

----------------------------------------------------------------------------
(* What the claims speak of.                                               *)

\* the calls that returned a result
Returned == {i \in DOMAIN calls : calls[i].raised = <<>>}

\* the page a returned call worked on
PageOf(i) == doc[calls[i].page_num]

\* s ends with the characters of tail
EndsWithSeq(s, tail) ==
    Len(s) >= Len(tail) /\ SubSeq(s, Len(s) - Len(tail) + 1, Len(s)) = tail

\* the file names call i saved
SavedNames(i) == {calls[i].saved[k].name : k \in DOMAIN calls[i].saved}

\* C1: for a document of N pages extract_page_markdown fails with a
\* ValueError naming the range 1-N for every p < 1 and every p > N, and for
\* every p with 1 <= p <= N returns a result whose page field is p.
C1_RangeValidation ==
    \A i \in DOMAIN calls :
        LET p == calls[i].page_num
            N == Len(doc)
        IN  IF p < 1 \/ p > N
            THEN /\ calls[i].raised = <<"ValueError">>
                 /\ EndsWithSeq(calls[i].message,
                                <<"(", "1", "-", DigitOf(N), ")">>)
            ELSE /\ calls[i].raised = <<>>
                 /\ calls[i].result.page = p

\* page 0 and page N + 1 were refused and the last page, page 2, was returned
C1_Witness ==
    /\ Len(doc) = 2
    /\ \E i \in DOMAIN calls :
           calls[i].page_num = 2 /\ calls[i].raised = <<>>
                /\ calls[i].result.page = 2
    /\ \E i \in DOMAIN calls :
           calls[i].page_num \in {0, 3} /\ calls[i].raised = <<"ValueError">>

\* C2: no call writes a temp file of a name another call wrote, so no call's
\* image file is overwritten.
C2_NoOverwrite ==
    \A i \in DOMAIN calls : \A j \in DOMAIN calls :
        i # j => SavedNames(i) \cap SavedNames(j) = {}

\* text before tables before images
Rank(type) == CASE type = "text" -> 1 [] type = "table" -> 2 [] type = "image" -> 3

\* C3: the fragments of all text segments, tables and images appear in the
\* page Markdown in non-decreasing order of y0; items of equal y0 keep their
\* input order: text segments, then tables, then images, each by index.
C3_AssembleOrder ==
    \A i \in Returned :
        LET c == calls[i]
            ac == c.all_content
            listed == {<<ac[k].type, ac[k].order>> : k \in DOMAIN ac}
            body == Join([k \in DOMAIN ac |-> Fragment(ac[k])], <<NL>>)
        IN  /\ Len(ac) = Len(c.text_content) + Len(c.tables) + Len(c.images)
            /\ listed = {<<"text", k - 1>> : k \in DOMAIN c.text_content}
                   \cup {<<"table", k - 1>> : k \in DOMAIN c.tables}
                   \cup {<<"image", k - 1>> : k \in DOMAIN c.images}
            /\ \A k \in DOMAIN ac :
                   ac[k].content =
                       CASE ac[k].type = "text" -> c.text_content[ac[k].order + 1]
                         [] ac[k].type = "table" -> c.tables[ac[k].order + 1]
                         [] ac[k].type = "image" -> c.images[ac[k].order + 1]
            /\ \A k \in 1..(Len(ac) - 1) :
                   \/ ac[k].content.bbox[2] < ac[k + 1].content.bbox[2]
                   \/ /\ ac[k].content.bbox[2] = ac[k + 1].content.bbox[2]
                      /\ \/ Rank(ac[k].type) < Rank(ac[k + 1].type)
                         \/ /\ ac[k].type = ac[k + 1].type
                            /\ ac[k].order < ac[k + 1].order
            /\ SubSeq(c.result.markdown, 1, Len(body)) = body

\* the table at y=50 came out before the paragraph at y=75 and that before
\* the heading at y=100, which was first in the input
C3_Witness ==
    \E i \in Returned :
        LET ac == calls[i].all_content
        IN  /\ Len(ac) = 3
            /\ ac[1].type = "table" /\ ac[1].bbox[2] = 50
            /\ ac[2].type = "text" /\ ac[2].content.type = "paragraph"
            /\ ac[2].bbox[2] = 75
            /\ ac[3].type = "text" /\ ac[3].content.type = "heading"
            /\ ac[3].bbox[2] = 100
            /\ PageOf(i).blocks[1].bbox[2] = 100

\* the rectangles share a region of positive area
Overlap(r1, r2) ==
    /\ Max(r1[1], r2[1]) < Min(r1[3], r2[3])
    /\ Max(r1[2], r2[2]) < Min(r1[4], r2[4])

\* block b of a page overlaps one of the tables the call extracted
InTable(i, b) == \E t \in DOMAIN calls[i].tables : Overlap(b.bbox, calls[i].tables[t].bbox)

Emitted(i, k) ==
    \E m \in DOMAIN calls[i].images :
        calls[i].images[m].id = <<"i", "m", "a", "g", "e", "_">> \o IntToStr(k)

\* C5: when extracting one image of a page fails only that image is skipped:
\* every other non-CMYK image of the page, before or after it, is in the
\* result, and the page's Markdown is returned without an error.
C5_OnlyFailingImageSkipped ==
    \A i \in DOMAIN calls :
        (~PageOutOfRange(doc, calls[i].page_num)) =>
            /\ calls[i].raised = <<>>
            /\ \A k \in DOMAIN PageOf(i).images :
                   LET img == PageOf(i).images[k]
                   IN  (img.n - img.alpha < 4 /\ img.fails = "none")
                           => Emitted(i, k)

C8_CmykFilter ==
    \A i \in Returned :
        \A k \in DOMAIN PageOf(i).images :
            LET img == PageOf(i).images[k]
                name == ImgFilename(calls[i].page_num, k)
            IN  /\ img.n - img.alpha >= 4 =>
                       ~Emitted(i, k) /\ name \notin SavedNames(i)
                /\ (img.n - img.alpha < 4 /\ img.fails = "none") =>
                       /\ name \in SavedNames(i)
                       /\ name \in DOMAIN temp_dir
                       /\ \E m \in DOMAIN calls[i].images :
                              /\ calls[i].images[m].path = TempDirPath \o name
                              /\ EndsWithSeq(calls[i].images[m].markdown,
                                     <<"(">> \o ApiTempImage \o name \o <<")">>)

----------------------------------------------------------------------------
\* the fragments of call i joined, before any footer
Body(i) ==
    Join([k \in DOMAIN calls[i].all_content |->
             Fragment(calls[i].all_content[k])], <<NL>>)

\* the horizontal rule and the footer line of page p, as lines
RuleLine == <<"-", "-", "-">>

FooterLine(p) == <<"*", "U+7B2C", " ">> \o IntToStr(p) \o <<" ", "U+9875", "*">>

\* the number of lines of text s that equal line
LinesEqual(s, line) ==
    LET ls == SplitOn(s, NL) IN Cardinality({k \in DOMAIN ls : ls[k] = line})

\* C11: a page with no text segment, no table and no image yields an empty
\* Markdown, with no horizontal rule and no footer; whenever the joined
\* fragments are non-empty after trimming the returned Markdown is those
\* fragments followed by exactly one horizontal rule and one footer line
\* naming the requested page number; otherwise nothing is appended.
C11_Footer ==
    \A i \in Returned :
        LET c == calls[i]
            md == c.result.markdown
            tail == <<NL, NL>> \o RuleLine \o <<NL, NL>>
                        \o FooterLine(c.page_num) \o <<NL>>
        IN  /\ (c.text_content = <<>> /\ c.tables = <<>> /\ c.images = <<>>)
                   => md = <<>>
            /\ IF Strip(Body(i)) # <<>>
               THEN /\ md = Body(i) \o tail
                    /\ LinesEqual(md, RuleLine) = 1
                    /\ LinesEqual(md, FooterLine(c.page_num)) = 1
               ELSE /\ md = Body(i)
                    /\ LinesEqual(md, RuleLine) = 0

\* an empty page gave an empty Markdown, and page 2 of the same document
\* gave a Markdown that ends with the rule and the footer of page 2
C11_Witness ==
    /\ \E i \in Returned :
           PageOf(i).blocks = <<>> /\ PageOf(i).images = <<>>
               /\ calls[i].result.markdown = <<>>
    /\ \E i \in Returned :
           /\ calls[i].page_num = 2
           /\ EndsWithSeq(calls[i].result.markdown,
                          RuleLine \o <<NL, NL>> \o FooterLine(2) \o <<NL>>)

\* the length of the widest row of a grid, 0 for a grid without rows
Widest(grid) ==
    IF grid = <<>> THEN 0
    ELSE CHOOSE n \in {Len(grid[r]) : r \in DOMAIN grid} :
             \A r \in DOMAIN grid : Len(grid[r]) <= n

\* C12: for every rendered table the reported row count is the number of
\* rows of the source grid and the reported column count is the length of
\* the widest row of the source grid.
C12_TableCounts ==
    \A i \in Returned :
        \A m \in DOMAIN calls[i].tables :
            LET grid == PageOf(i).tables[m].data
            IN  /\ calls[i].tables[m].rows = Len(grid)
                /\ calls[i].tables[m].cols = Widest(grid)

\* C13: a request for a page outside 1..N raises before any step of the
\* extraction is taken: no list is built, no file is saved, no file of the
\* temp directory is written by that call; and a request for a page inside
\* 1..N never raises.
C13_FailsBeforeWork ==
    \A i \in DOMAIN calls :
        LET c == calls[i]
        IN  IF c.page_num < 1 \/ c.page_num > Len(doc)
            THEN /\ c.raised = <<"ValueError">>
                 /\ c.steps = <<>>
                 /\ c.text_content = <<>> /\ c.tables = <<>> /\ c.images = <<>>
                 /\ c.saved = <<>>
                 /\ \A name \in DOMAIN temp_dir : temp_dir[name].call # i
            ELSE c.raised = <<>>

\* a call that saved image files was followed by a call for a page out of
\* range, and the files are still those of the first call
C13_Witness ==
    /\ Len(calls) = 2
    /\ calls[1].raised = <<>> /\ calls[1].saved # <<>>
    /\ calls[2].raised # <<>>
    /\ DOMAIN temp_dir = SavedNames(1)
    /\ \A name \in DOMAIN temp_dir : temp_dir[name].call = 1

WordEnds(s) ==
    {k \in 1..Len(s) :
        s[k] \notin Whitespace /\ (k = Len(s) \/ s[k + 1] \in Whitespace)}

\* C15: the estimated reading time is floor(W / 200), W the number of
\* whitespace-separated words of the returned Markdown, footer included;
\* 400 words give 2, 150 words give 0, and the value is never negative.
C15_ReadingTime ==
    \A i \in Returned :
        LET W == Cardinality(WordEnds(calls[i].result.markdown))
            t == calls[i].result.estimated_reading_time
        IN  /\ t >= 0
            /\ 200 * t <= W /\ W < 200 * (t + 1)
            /\ W = 400 => t = 2
            /\ W = 150 => t = 0

\* a Markdown of exactly 400 words, footer included, was given 2 minutes
C15_Witness ==
    \E i \in Returned :
        /\ Cardinality(WordEnds(calls[i].result.markdown)) = 400
        /\ EndsWithSeq(calls[i].result.markdown, FooterLine(1) \o <<NL>>)
        /\ calls[i].result.estimated_reading_time = 2

\* the pipe-delimited cells of one line of a rendered table
PipeCells(line) == Count(line, "|") - 1

\* C7: for a non-empty grid every line of the rendered table (header,
\* separator, data rows) holds exactly maxCols pipe-delimited cells, and
\* there is one line per grid row plus the separator; an empty grid renders
\* as the empty string.
C7_TablePadding ==
    markdown_table # <<>> =>
        IF table_data = <<>> THEN markdown_table[1] = <<>>
        ELSE LET lines == SplitOn(markdown_table[1], NL)
             IN  /\ Len(lines) = Len(table_data) + 1
                 /\ \A i \in 1..Len(lines) :
                        PipeCells(lines[i]) = MaxLen(table_data)

----------------------------------------------------------------------------
\* the size of the first span of the first line of the block, 12 when the
\* first line has no span or the span no size
FirstSpanSize ==
    IF block.lines = <<>> \/ block.lines[1] = <<>> THEN 12
    ELSE IF "size" \in DOMAIN block.lines[1][1] THEN block.lines[1][1].size
    ELSE 12

\* the text block was classified (not handed to the formatter directly) and kept
Classified ==
    /\ text_item # <<>>
    /\ ~text_item[1].direct
    /\ text_item[1].content # <<>>

\* C9: a retained text block gets its kind by first match in the order
\* formula, heading, list, paragraph: Formula when the formula test passes,
\* whatever the font size or prefix; else Heading when the first span's size
\* is above 14 and the text ends with ':' or is shorter than 100, list marker
\* or not; else ListItem when it starts with a bullet or 'N.' marker; else
\* Paragraph.
C9_ClassifyPriority ==
    Classified =>
        LET item == text_item[1].content[1]
            text == item.text
            heading_shape == /\ FirstSpanSize > 14
                             /\ (text[Len(text)] = ":" \/ Len(text) < 100)
            list_marker == MatchesBullet(text) \/ MatchesNumbered(text)
        IN  /\ Len(text_item[1].content) = 1
            /\ text = BlockText(block)
            /\ item.type = IF IsMathFormula(text) THEN "formula"
                           ELSE IF heading_shape THEN "heading"
                           ELSE IF list_marker THEN "list"
                           ELSE "paragraph"

\* a block in a large font that starts with a list marker became a Heading,
\* and the formula test was not what decided it
C9_Witness ==
    /\ Classified
    /\ text_item[1].content[1].type = "heading"
    /\ MatchesNumbered(text_item[1].content[1].text)
    /\ FirstSpanSize = 20

RECURSIVE LeadingHashes(_)
\* the number of '#' characters s starts with
LeadingHashes(s) ==
    IF s # <<>> /\ Head(s) = "#" THEN 1 + LeadingHashes(Tail(s)) ELSE 0

\* C10: a Heading is rendered as a line of '#' marks, a space and the text,
\* the number of marks decided by the first span's font size alone: above 18
\* one, above 16 up to 18 two, above 14 up to 16 three, anything else four;
\* 'Summary' at size 20 renders as '# Summary' and at 15 as '### Summary'.
C10_HeadingLevel ==
    (text_item # <<>> /\ text_item[1].content # <<>>
        /\ text_item[1].content[1].type = "heading") =>
        LET text == text_item[1].content[1].text
            out == text_item[1].formatted[1]
            marks == LeadingHashes(Tail(out))
            z == FirstSpanSize
        IN  /\ Head(out) = NL
            /\ (z > 18 => marks = 1)
            /\ (z > 16 /\ z <= 18 => marks = 2)
            /\ (z > 14 /\ z <= 16 => marks = 3)
            /\ (z <= 14 => marks = 4)
            /\ SubSeq(out, marks + 2, Len(out)) = <<" ">> \o text \o <<NL>>
            /\ (text = Summary /\ z = 20 =>
                    Strip(out) = <<"#", " ">> \o Summary)
            /\ (text = Summary /\ z = 15 =>
                    Strip(out) = <<"#", "#", "#", " ">> \o Summary)

\* the classifier made 'Summary' at size 20 a Heading and it was rendered as
\* '# Summary'
C10_Witness ==
    /\ Classified
    /\ text_item[1].content[1].type = "heading"
    /\ FirstSpanSize = 20
    /\ Strip(text_item[1].formatted[1]) = <<"#", " ">> \o Summary

\* path lies in directory dir or below it
Inside(p, dir) == Len(p) >= Len(dir) /\ SubSeq(p, 1, Len(dir)) = dir

\* C16: a request whose filepath contains ".." or starts with "/" or "\" is
\* answered with status 400 and no file is read, and every file the route
\* serves resolves to a path inside the temporary directory.
C16_NoTraversal ==
    \A k \in DOMAIN response :
        LET r == response[k]
            fp == r.filepath
        IN  /\ (\/ \E i \in 1..(Len(fp) - 1) : fp[i] = "." /\ fp[i + 1] = "."
                \/ (fp # <<>> /\ fp[1] \in {"/", "\\"}))
               => (r.status = 400 /\ r.read = <<>>)
            /\ r.status = 200 =>
                   (r.read # <<>> /\ Inside(r.read[1], TempDir))

\* the tools that take a doc_id
DocTools ==
    {"page_count", "extract_text", "render_page_png", "search_text",
     "close_pdf"}

\* the store after the call is the store before it
StoreUnchanged(c) == documents = c.before

\* the store after the call is the store before it without doc_id
StoreWithout(c) ==
    /\ DOMAIN documents = DOMAIN c.before \ {c.doc_id}
    /\ \A i \in DOMAIN documents : documents[i] = c.before[i]

\* C17 as stated: a tool that takes a doc_id succeeds only for an id that
\* open_pdf returned and close_pdf has not closed since; for every other id
\* it raises ValueError 'Invalid or missing doc_id' and the store is
\* unchanged; a successful close_pdf removes exactly that id.
C17_DocIdLifecycle ==
    \A k \in DOMAIN tool_call :
        LET c == tool_call[k]
        IN  c.tool \in DocTools =>
                /\ c.raised = <<>> => c.doc_id \in c.live_before
                /\ c.doc_id \notin c.live_before =>
                       (c.raised = InvalidDocId /\ StoreUnchanged(c))
                /\ (c.tool = "close_pdf" /\ c.raised = <<>>) =>
                       StoreWithout(c)

\* C17 amended: as C17, except that search_text given an empty query
\* raises ValueError 'Missing required parameter: query' whatever the
\* doc_id is, the store unchanged.
C17_DocIdLifecycleAmended ==
    \A k \in DOMAIN tool_call :
        LET c == tool_call[k]
            empty_query == c.tool = "search_text" /\ c.query = <<>>
        IN  c.tool \in DocTools =>
                /\ c.raised = <<>> => c.doc_id \in c.live_before
                /\ (c.doc_id \notin c.live_before /\ ~empty_query) =>
                       (c.raised = InvalidDocId /\ StoreUnchanged(c))
                /\ empty_query =>
                       /\ c.raised = Raise("ValueError",
                              "Missing required parameter: query")
                       /\ StoreUnchanged(c)
                /\ (c.tool = "close_pdf" /\ c.raised = <<>>) =>
                       StoreWithout(c)

\* an id was opened and closed, another is still open, and a second close
\* of the first was refused, the store still holding the other
C17_Witness ==
    \E k \in DOMAIN tool_call :
        LET c == tool_call[k]
        IN  /\ c.tool = "close_pdf"
            /\ c.doc_id \in closed
            /\ c.doc_id \notin c.live_before
            /\ c.raised = InvalidDocId
            /\ documents # <<>> /\ documents = c.before

\* the paths outside the allowed directories
DeniedPaths == {<<"/", "e", "t", "c", "/", "x", ".", "p", "d", "f">>, <<"/", "t", "m", "p", "/", ".", ".", "/", "e", "t", "c", "/", "x", ".", "p", "d", "f">>}

\* C18: a successful open_pdf returns an id no earlier open returned and
\* adds exactly that id to the store, mapped to the opened document; a
\* failing open (ValueError 'Access denied' for a path outside the allowed
\* directories, before the file is touched; RuntimeError for a missing or
\* invalid file) leaves the store as it was.
C18_OpenAddsOneFreshId ==
    \A k \in DOMAIN tool_call :
        LET c == tool_call[k]
        IN  c.tool = "open_pdf" =>
                /\ c.raised = <<>> =>
                       LET id == c.returned[1]
                       IN  /\ id \notin c.issued_before
                           /\ id \notin DOMAIN c.before
                           /\ DOMAIN documents = DOMAIN c.before \cup {id}
                           /\ documents[id].path = c.path
                           /\ \A i \in DOMAIN c.before :
                                  documents[i] = c.before[i]
                /\ c.raised # <<>> => StoreUnchanged(c)
                /\ c.path \in DeniedPaths =>
                       /\ c.raised = Raise("ValueError",
                                           "Access denied for path")
                       /\ ~c.touched
                /\ c.path \in {MissingPath, InvalidPath} =>
                       c.raised = Raise("RuntimeError", "Failed to open PDF")

\* a document was opened after another had been opened and closed, and got
\* an id of its own
C18_Witness ==
    \E k \in DOMAIN tool_call :
        LET c == tool_call[k]
        IN  /\ c.tool = "open_pdf" /\ c.raised = <<>>
            /\ closed # {} /\ c.before = <<>>
            /\ c.returned[1] \notin closed
            /\ DOMAIN documents = {c.returned[1]}

\* C19: search_text returns at most max_hits results for every value of
\* max_hits, in ascending page order, and an empty query is rejected with
\* 'Missing required parameter: query' before the doc_id is looked at.
C19_SearchBounded ==
    \A k \in DOMAIN tool_call :
        LET c == tool_call[k]
        IN  c.tool = "search_text" =>
                /\ c.raised = <<>> =>
                       LET results == c.returned[1]
                       IN  /\ Len(results) <= c.max_hits
                           /\ \A a \in DOMAIN results : \A b \in DOMAIN results :
                                  a < b => results[a].page <= results[b].page
                /\ c.query = <<>> =>
                       c.raised = Raise("ValueError",
                                        "Missing required parameter: query")

\* C20: every glossary entry of the context given to translate_paragraphs
\* is in the glossary of the returned context with the same translation,
\* and the style guide of the given context is returned unchanged.
C20_ContextPreserved ==
    \A k \in DOMAIN translated :
        LET r == translated[k]
            given == r.args.context
        IN  (r.raised = <<>> /\ given # <<>>) =>
                /\ "glossary" \in DOMAIN given[1] =>
                       \A term \in DOMAIN given[1].glossary :
                           /\ term \in DOMAIN r.context.glossary
                           /\ r.context.glossary[term]
                                  = given[1].glossary[term]
                /\ "style_guide" \in DOMAIN given[1] =>
                       r.context.style_guide = given[1].style_guide

\* C21: translate_paragraphs called with a start at or beyond the number of
\* paragraphs of the file returns no translation and count 0, echoes the
\* start, returns the context it was given ({} when it was given none), and
\* makes no LLM request.
C21_EmptyRange ==
    \A k \in DOMAIN translated :
        LET r == translated[k]
        IN  r.args.start >= Len(SplitParagraphs(r.args.file_text)) =>
                /\ r.raised = <<>>
                /\ r.translations = <<>> /\ r.count = 0
                /\ r.start = r.args.start
                /\ r.context = IF r.args.context = <<>> THEN EmptyDict
                               ELSE r.args.context[1]
                /\ r.requests = <<>>

\* a call for a range past the only paragraph of a file, with a glossary in
\* its context, returned that context and made no request
C21_Witness ==
    \E k \in DOMAIN translated :
        LET r == translated[k]
        IN  /\ Len(SplitParagraphs(r.args.file_text)) = 1
            /\ r.args.start = 2 /\ r.args.count > 0
            /\ r.args.context # <<>>
            /\ "glossary" \in DOMAIN r.args.context[1]
            /\ r.context = r.args.context[1]
            /\ r.translations = <<>> /\ r.requests = <<>>

\* the mark of a paragraph that could not be translated
TranslationError ==
    <<"[", "T", "R", "A", "N", "S", "L", "A", "T", "I", "O", "N", " ",
      "E", "R", "R", "O", "R", "]">>

\* C22: when an LLM request fails during translate_paragraphs the call
\* does not raise: its count is the number of paragraphs of the requested
\* range and every translation carries '[TRANSLATION ERROR]'; and when it
\* fails during analyze_document the call still returns total_paragraphs
\* and a style_analysis with style and tone.
C22_LlmFailureFallback ==
    /\ \A k \in DOMAIN translated :
           LET r == translated[k]
           IN  r.failed =>
                   /\ r.raised = <<>>
                   /\ r.count = Len(r.paragraphs)
                   /\ Len(r.translations) = Len(r.paragraphs)
                   /\ \A j \in DOMAIN r.translations :
                          Contains(r.translations[j], TranslationError)
    /\ \A k \in DOMAIN analyzed :
           LET r == analyzed[k]
           IN  r.failed =>
                   /\ r.raised = <<>>
                   /\ r.returned # <<>>
                   /\ {"style", "tone"}
                          \subseteq DOMAIN r.returned[1].style_analysis

\* C30: every block the classifier labels heading is rendered with one, two
\* or three '#' marks: its first span's size is above 14, so the four-mark
\* branch of the renderer is not taken for what the classifier puts out.
C30_NoLevelFour ==
    (Classified /\ text_item[1].content[1].type = "heading") =>
        LET marks == LeadingHashes(Tail(text_item[1].formatted[1]))
        IN  /\ FirstSpanSize > 14
            /\ marks \in 1..3

\* a block of size 15, the smallest size above 14 among the blocks, was
\* classified as a heading and rendered with three marks
C30_Witness ==
    /\ Classified
    /\ text_item[1].content[1].type = "heading"
    /\ FirstSpanSize = 15
    /\ LeadingHashes(Tail(text_item[1].formatted[1])) = 3

\* C23: while a stream that registered its session id is still running,
\* chat_abort for that id finds that stream's client: not 404, and not the
\* client of another stream.
C23_AbortFindsOwner ==
    \A c \in DOMAIN streams :
        streams[c].pc = "streaming" =>
            \A raises \in BOOLEAN :
                AbortAnswer(active_sessions, streams[c].current_session_id,
                            raises).interrupted = <<c>>

\* C28: chat_abort answers 400 without a sessionId, 404 (interrupting
\* nobody) for an id that is not registered, and for a registered id it
\* interrupts exactly the registered client and answers interrupted, or 500
\* when the interrupt raises; an abort leaves active_sessions as it was, and
\* a stream that ends takes its session id out of the registry.
C28_AbortAnswers ==
    [][ /\ aborted' # aborted =>
              LET session_id == aborted'[1].sessionId
                  raises == aborted'[1].interrupt_raises
                  r == aborted'[1].answer
                  known == session_id \in DOMAIN active_sessions
              IN  /\ active_sessions' = active_sessions
                  /\ session_id = None =>
                        r.status_code = 400 /\ r.interrupted = <<>>
                  /\ (session_id # None /\ ~known) =>
                        r.status_code = 404 /\ r.interrupted = <<>>
                  /\ (session_id # None /\ known) =>
                        /\ r.interrupted = <<active_sessions[session_id]>>
                        /\ r.status_code = IF raises THEN 500 ELSE 200
                        /\ ~raises => r.detail = "interrupted"
        /\ \A c \in DOMAIN streams :
              (streams[c].pc # "done" /\ streams'[c].pc = "done"
                 /\ streams[c].current_session_id # None) =>
                  streams[c].current_session_id \notin DOMAIN active_sessions'
      ]_vars

\* an abort of a registered session whose interrupt raised was answered 500,
\* a stream has ended, and another session is still registered
C28_Witness ==
    /\ aborted # <<>>
    /\ aborted[1].answer.status_code = 500
    /\ aborted[1].answer.interrupted # <<>>
    /\ \E c \in DOMAIN streams : streams[c].pc = "done"
    /\ active_sessions # <<>>

\* C24: a delete_file request whose path resolves to a place outside the
\* repository root is answered 403 "Access denied" and leaves the file
\* system as it was; no file outside the root is ever deleted.
C24_DeleteStaysInside ==
    [][ LET r == response'[1]
            repo_root == Resolve(files, <<>>, RepoRoot[r.repo])
            file_path == FilePath(files, RepoRoot[r.repo], r.path)
        IN  /\ (r.repo \in DOMAIN RepoRoot /\ ~Inside(file_path, repo_root)) =>
                  /\ r.status_code = 403
                  /\ r.detail = "Access denied"
                  /\ files' = files
            /\ \A p \in DOMAIN files \ DOMAIN files' :
                  Inside(p, Resolve(files, <<>>, RepoRoot[r.repo]))
      ]_vars

\* the messages of the queue that carry call_id c
QueuedFor(c) ==
    {k \in DOMAIN frontend_tool_queue : frontend_tool_queue[k].call_id = c}

\* C25: pending_tool_calls holds exactly the call_ids of the wrapper
\* invocations that are still waiting, each under its own call_id, and every
\* invocation put exactly one tool_call message on the queue, which is still
\* queued or was sent to the browser.
C25_PendingAreWaiting ==
    /\ DOMAIN pending_tool_calls =
           {c \in DOMAIN wrappers : wrappers[c].pc = "waiting"}
    /\ \A c \in DOMAIN pending_tool_calls : pending_tool_calls[c] = c
    /\ \A c \in DOMAIN wrappers :
           /\ Cardinality(QueuedFor(c)) + (IF c \in delivered THEN 1 ELSE 0) = 1
           /\ \A k \in QueuedFor(c) :
                 /\ frontend_tool_queue[k].type = "tool_call"
                 /\ frontend_tool_queue[k].name \in ToolNames
    /\ \A k \in DOMAIN frontend_tool_queue :
           frontend_tool_queue[k].call_id \in DOMAIN wrappers
    /\ delivered \subseteq DOMAIN wrappers

\* one call returned a result and the other timed out: no entry is left
C25_Witness ==
    /\ \E c \in DOMAIN wrappers : wrappers[c].pc = "returned"
    /\ \E c \in DOMAIN wrappers : wrappers[c].pc = "raised"
    /\ pending_tool_calls = <<>>

\* C27: every frontend tool call that waits eventually finishes, with a
\* result or with TimeoutError, also when its message is never sent to a
\* browser; a call that returned returned the result set on its future, and
\* a call that timed out is not changed by a result that arrives later.
C27_CallsFinish ==
    /\ \A c \in 1..MaxToolCalls :
          (c \in DOMAIN wrappers /\ wrappers[c].pc = "waiting")
              ~> (c \in DOMAIN wrappers
                    /\ wrappers[c].pc \in {"returned", "raised"})
    /\ [][ \A c \in DOMAIN wrappers :
              /\ wrappers[c].pc \in {"returned", "raised"} =>
                    wrappers'[c] = wrappers[c]
              /\ (wrappers[c].pc = "waiting" /\ wrappers'[c].pc = "returned") =>
                    /\ wrappers[c].future.done
                    /\ wrappers'[c].raised = <<>>
                    /\ wrappers'[c].out =
                           <<ToolResult(wrappers[c].future.value[1])>>
              /\ (wrappers[c].pc = "waiting" /\ wrappers'[c].pc = "raised") =>
                    /\ wrappers'[c].raised = <<"TimeoutError">>
                    /\ wrappers'[c].out = <<>>
         ]_vars

\* a call timed out while its message was still on the queue, no browser
\* being connected, and a result was posted for it afterwards
C27_Witness ==
    \E c \in DOMAIN wrappers :
        /\ wrappers[c].pc = "raised"
        /\ ~wrappers[c].future.done
        /\ QueuedFor(c) # {}
        /\ posted # <<>> /\ posted[1].call_id = c /\ posted[1].status_code = 200

\* the call_id has an entry whose future has no result yet
Completable(call_id) ==
    /\ call_id \in DOMAIN pending_tool_calls
    /\ ~wrappers[call_id].future.done

\* C26: complete_tool_call for a call_id that is unknown, timed out or
\* already completed changes nothing, and the tool-result route answers ok
\* all the same; for a pending call the first posted result is set on the
\* future and stays, a non-empty error as an error and anything else as a
\* result, and the wrapper returns is_error exactly for an error.
C26_FirstResultDecides ==
    [][ /\ \A call_id \in PostedIds \ {NoCallId}, post \in Posts :
              LET after == CompleteToolCall(wrappers, pending_tool_calls,
                                            call_id, post.result, post.error)
              IN  IF Completable(call_id)
                  THEN /\ after[call_id].future.done
                       /\ after[call_id].future.value =
                              IF post.error \notin {None, ""}
                              THEN <<[key |-> "error", value |-> post.error]>>
                              ELSE <<[key |-> "result", value |-> post.result]>>
                       /\ \A c \in DOMAIN wrappers \ {call_id} :
                              after[c] = wrappers[c]
                  ELSE after = wrappers
        /\ posted' # posted =>
              /\ UNCHANGED <<pending_tool_calls, frontend_tool_queue, delivered>>
              /\ posted'[1].call_id # NoCallId =>
                    /\ posted'[1].status_code = 200
                    /\ posted'[1].body = "ok"
                    /\ ~Completable(posted'[1].call_id) => wrappers' = wrappers
        /\ \A c \in DOMAIN wrappers :
              /\ wrappers[c].future.done =>
                    wrappers'[c].future = wrappers[c].future
              /\ (wrappers[c].pc = "waiting" /\ wrappers'[c].pc = "returned") =>
                    LET first == wrappers[c].future.value[1]
                        out == wrappers'[c].out[1]
                    IN  /\ out.is_error = (first.key = "error")
                        /\ first.key = "error" =>
                              out.content = <<"Error: ", first.value>>
                        /\ first.key = "result" =>
                              out.content = <<Str(first.value)>>
      ]_vars

\* a call returned an error result, another returned the result posted
\* with an empty error, and the last request, for a call that had returned
\* already, was answered ok
C26_Witness ==
    /\ \E c \in DOMAIN wrappers :
          wrappers[c].pc = "returned" /\ wrappers[c].out[1].is_error
    /\ \E c \in DOMAIN wrappers :
          /\ wrappers[c].pc = "returned"
          /\ wrappers[c].out[1] = [content |-> <<"ok">>, is_error |-> FALSE]
    /\ posted # <<>>
    /\ posted[1].call_id \in DOMAIN wrappers
    /\ posted[1].status_code = 200
    /\ pending_tool_calls = <<>>

\* the sessions list and lastActiveSessionId of sessions.json, or of the
\* answer of the list route when the file does not exist
MetaNow == IF meta = <<>> THEN NoMeta ELSE meta[1]

\* C29: after any saves and deletes the ids of the sessions list are
\* pairwise distinct, they are exactly the ids that have a session file, and
\* lastActiveSessionId is null only with an empty list and otherwise the id
\* of a session in the list; a delete of an id without session file is
\* answered 404 and changes nothing.
C29_MetaConsistent ==
    /\ [](LET ids == IdsOf(MetaNow.sessions)
              last == MetaNow.lastActiveSessionId
          IN  /\ \A i, j \in DOMAIN ids : ids[i] = ids[j] => i = j
              /\ {ids[k] : k \in DOMAIN ids} = DOMAIN session_files
              /\ last = None => ids = <<>>
              /\ last # None => \E k \in DOMAIN ids : ids[k] = last)
    /\ [][ (session_answer'[1].op = "delete"
              /\ session_answer'[1].session_id \notin DOMAIN session_files) =>
                 /\ session_answer'[1].status_code = 404
                 /\ UNCHANGED <<session_files, meta>>
         ]_vars

\* two sessions are listed, a third was saved and deleted again, the last
\* active session is not the first of the list, and the last request, a
\* delete of an id without file, was answered 404
C29_Witness ==
    /\ Len(MetaNow.sessions) = 2
    /\ MetaNow.lastActiveSessionId = MetaNow.sessions[2].id
    /\ session_answer # <<>>
    /\ session_answer[1].op = "delete"
    /\ session_answer[1].status_code = 404
    /\ session_answer[1].session_id \notin DOMAIN session_files

====
